---- MODULE Spec2Model ----
(***************************************************************************)
(* A model of the httprpc registration, route-matching and dispatch engine *)
(* (endpoint groups, route pattern compiler, middleware composer, dispatch *)
(* table and typed handler pipeline).  Paths, methods and wire values are  *)
(* TLA+ strings, handled character by character as the Go code does.       *)
(***************************************************************************)
EXTENDS Integers, Sequences, FiniteSets, TLC

VARIABLES
    groups,     \* the EndpointGroup tree: groups[1] is the root (Router.EndpointGroup)
    Handlers,   \* root.Handlers: the registered endpoints, in registration order
    Metas,      \* root.Metas: the metadata records, in registration order
    sealed,     \* root.sealed
    fallback,   \* Router.fallback ("nil" when unset)
    built,      \* what the last Handler() call returned (handler or error)
    resp,       \* what the last ServeHTTP call on the built handler did
    lastOp,     \* the last operation performed and its outcome
    running     \* the calls in progress on other goroutines, and where each stands

vars == <<groups, Handlers, Metas, sealed, fallback, built, resp, lastOp, running>>

(***************************************************************************)
(* Bounds of the model.                                                    *)
(***************************************************************************)
MaxEndpoints == 3
MaxGroups == 2
MaxMiddlewares == 3
MaxWrap == 2

\* The nil *routeMethods (a pattern before its first endpoint is attached).
NilMethods == [isNil |-> TRUE, byMethod |-> <<>>, allow |-> ""]

\* An http.Handler of the table: the endpoint's adapted handler (inner, of the
\* endpoint registered ep-th) and the group-level layers wrapped around it.
\* inner is [kind, codec, Req, Meta, typed]: what adaptHandler closed over.
NoCodec == [kind |-> "none", Status |-> 0, decodeErr |-> <<>>, failing |-> FALSE]

NoInner == [kind |-> "none", codec |-> NoCodec, Req |-> "", Meta |-> "", typed |-> <<>>]

\* The nil http.Handler (no fallback set; also the handler of a failed build).
NilHandler == [isNil |-> TRUE, ep |-> 0, inner |-> NoInner, wraps |-> <<>>]

\* A user-supplied http.Handler (the fallback).
UserHandler == [isNil |-> FALSE, ep |-> 0, inner |-> NoInner, wraps |-> <<>>]

(***************************************************************************)
(* Strings (package strings), character by character.                      *)
(***************************************************************************)
Ch(s, i) == SubSeq(s, i, i)

Contains(s, c) == \E i \in 1..Len(s) : Ch(s, i) = c

\* strings.HasPrefix
HasPrefix(s, prefix) == Len(s) >= Len(prefix) /\ SubSeq(s, 1, Len(prefix)) = prefix

RECURSIVE TrimLeft(_, _)
TrimLeft(s, c) ==
    IF Len(s) > 0 /\ Ch(s, 1) = c THEN TrimLeft(SubSeq(s, 2, Len(s)), c) ELSE s

RECURSIVE TrimRight(_, _)
TrimRight(s, c) ==
    IF Len(s) > 0 /\ Ch(s, Len(s)) = c THEN TrimRight(SubSeq(s, 1, Len(s) - 1), c) ELSE s

\* strings.Trim(s, "/")
Trim(s, c) == TrimRight(TrimLeft(s, c), c)

\* strings.Split(s, "/"): the pieces between the separators, empty pieces kept
RECURSIVE SplitFrom(_, _, _, _)
SplitFrom(s, c, i, cur) ==
    IF i > Len(s) THEN <<cur>>
    ELSE IF Ch(s, i) = c THEN <<cur>> \o SplitFrom(s, c, i + 1, "")
    ELSE SplitFrom(s, c, i + 1, cur \o Ch(s, i))

Split(s, c) == SplitFrom(s, c, 1, "")

\* strings.Join(parts, sep)
RECURSIVE Join(_, _)
Join(parts, sep) ==
    IF Len(parts) = 0 THEN ""
    ELSE IF Len(parts) = 1 THEN parts[1]
    ELSE parts[1] \o sep \o Join(Tail(parts), sep)

LowerLetters ==
    {"a", "b", "c", "d", "e", "f", "g", "h", "i", "j", "k", "l", "m",
     "n", "o", "p", "q", "r", "s", "t", "u", "v", "w", "x", "y", "z"}

Digits == {"0", "1", "2", "3", "4", "5", "6", "7", "8", "9"}

\* A name test that takes any non-empty name.
anyName(s) == s # ""

isSnakeCase(s) ==
    /\ s # ""
    /\ \A i \in 1..Len(s) :
          \/ Ch(s, i) \in LowerLetters
          \/ Ch(s, i) \in Digits /\ i > 1
          \/ Ch(s, i) = "_" /\ i > 1
    /\ Ch(s, 1) \in LowerLetters

(***************************************************************************)
(* Route Pattern Compiler (serve.go).                                      *)
(***************************************************************************)
normalizeRoutePath(path) == "/" \o Trim(path, "/")

normalizeRequestPath(path) == "/" \o Trim(path, "/")

\* A routePattern that failed to parse: parseRoutePattern returns (nil, err).
BadPattern(path, err) ==
    [err |-> err, path |-> path, shape |-> "", segments |-> <<>>, params |-> <<>>,
     methods |-> NilMethods]

\* The loop of parseRoutePattern over parts[i..] and the routePattern built
\* after it: err = "" on success; methods is nil until the table builder
\* attaches a routeMethods to the pattern.
RECURSIVE parseParts(_, _, _, _, _)
parseParts(path, parts, i, params, shapeParts) ==
    IF i > Len(parts)
    THEN [err |-> "", path |-> path, shape |-> "/" \o Join(shapeParts, "/"),
          segments |-> parts, params |-> params, methods |-> NilMethods]
    ELSE IF Contains(parts[i], "{") \/ Contains(parts[i], "}")
    THEN BadPattern(path, "use :name for params")
    ELSE IF HasPrefix(parts[i], ":")
    THEN IF SubSeq(parts[i], 2, Len(parts[i])) = ""
         THEN BadPattern(path, "missing param name")
         ELSE IF Contains(SubSeq(parts[i], 2, Len(parts[i])), ":")
         THEN BadPattern(path, "unexpected ':'")
         ELSE IF ~isSnakeCase(SubSeq(parts[i], 2, Len(parts[i])))
         THEN BadPattern(path, "must be snake_case")
         ELSE IF \E k \in 1..Len(params) : params[k] = SubSeq(parts[i], 2, Len(parts[i]))
         THEN BadPattern(path, "duplicate path param")
         ELSE parseParts(path, parts, i + 1,
                         Append(params, SubSeq(parts[i], 2, Len(parts[i]))),
                         Append(shapeParts, ":"))
    ELSE IF Contains(parts[i], ":")
    THEN BadPattern(path, "use :name for params")
    ELSE parseParts(path, parts, i + 1, params, Append(shapeParts, parts[i]))

\* parseRoutePattern on a normalized path
parseNormalized(path) ==
    IF path = "/"
    THEN [err |-> "", path |-> path, shape |-> path, segments |-> <<"">>,
          params |-> <<>>, methods |-> NilMethods]
    ELSE parseParts(path, Split(Trim(path, "/"), "/"), 1, <<>>, <<>>)

parseRoutePattern(path) == parseNormalized(normalizeRoutePath(path))

\* pathParamName: the name of a ":name" segment, if it is one
\* (strings.TrimSpace is the identity on the names used here: no blanks).
pathParamName(segment) ==
    IF Len(segment) < 2 THEN [name |-> "", ok |-> FALSE]
    ELSE IF ~HasPrefix(segment, ":") THEN [name |-> "", ok |-> FALSE]
    ELSE [name |-> SubSeq(segment, 2, Len(segment)), ok |-> TRUE]

EmptyMap == [n \in {} |-> ""]

\* The loop of routePattern.match over segments[i..].
RECURSIVE matchFrom(_, _, _, _)
matchFrom(segments, parts, i, values) ==
    IF i > Len(segments) THEN [ok |-> TRUE, values |-> values]
    ELSE IF pathParamName(segments[i]).ok
    THEN matchFrom(segments, parts, i + 1,
                   [n \in DOMAIN values \cup {pathParamName(segments[i]).name} |->
                       IF n = pathParamName(segments[i]).name THEN parts[i] ELSE values[n]])
    ELSE IF segments[i] # parts[i] THEN [ok |-> FALSE, values |-> EmptyMap]
    ELSE matchFrom(segments, parts, i + 1, values)

\* routePattern.match on the split request path
matchParts(p, parts) ==
    IF Len(p.segments) # Len(parts) THEN [ok |-> FALSE, values |-> EmptyMap]
    ELSE matchFrom(p.segments, parts, 1, EmptyMap)

\* routePattern.match: ok is pathParamMatch.ok() (values != nil)
match(p, path) ==
    IF p.path = path THEN [ok |-> TRUE, values |-> EmptyMap]
    ELSE matchParts(p, Split(Trim(path, "/"), "/"))

(***************************************************************************)
(* Maps (Go map[string]T) as functions on a set of strings.                *)
(***************************************************************************)
Put(f, k, v) == [x \in DOMAIN f \cup {k} |-> IF x = k THEN v ELSE f[x]]

Has(f, k) == k \in DOMAIN f

(***************************************************************************)
(* sort.Strings: byte-wise lexicographic order.  The strings sorted are    *)
(* HTTP methods, written in upper-case letters.                            *)
(***************************************************************************)
UpperLetters == "ABCDEFGHIJKLMNOPQRSTUVWXYZ"

CharRank(c) == CHOOSE i \in 1..Len(UpperLetters) : Ch(UpperLetters, i) = c

RECURSIVE StrLess(_, _)
StrLess(a, b) ==
    IF Len(b) = 0 THEN FALSE
    ELSE IF Len(a) = 0 THEN TRUE
    ELSE IF Ch(a, 1) = Ch(b, 1) THEN StrLess(SubSeq(a, 2, Len(a)), SubSeq(b, 2, Len(b)))
    ELSE CharRank(Ch(a, 1)) < CharRank(Ch(b, 1))

\* The keys of a map, sorted ascending (the "for method := range" loop followed
\* by sort.Strings: the map's iteration order does not survive the sort).
RECURSIVE SortStrings(_)
SortStrings(S) ==
    IF S = {} THEN <<>>
    ELSE LET least == CHOOSE x \in S : \A y \in S \ {x} : StrLess(x, y)
         IN <<least>> \o SortStrings(S \ {least})

(***************************************************************************)
(* Middleware Composer (serve.go).                                         *)
(***************************************************************************)
\* collectMiddlewares: from the group outward to the root, each group's own
\* entries in registration order.  Group 0 is the nil group.
RECURSIVE collectFrom(_, _)
collectFrom(gs, g) ==
    IF g = 0 THEN <<>> ELSE gs[g].Middlewares \o collectFrom(gs, gs[g].parent)

\* The entries of the group alone.
collectOwn(gs, group) == gs[group].Middlewares

collectMiddlewares(gs, group) == collectFrom(gs, group)

\* sort.SliceStable with less(i, j) = ordered[i].Priority < ordered[j].Priority:
\* a stable insertion of each entry behind the entries that are not greater.
\* An insertion that puts an entry ahead of the entries equal to it.
RECURSIVE insertAhead(_, _)
insertAhead(sorted, mw) ==
    IF Len(sorted) = 0 THEN <<mw>>
    ELSE IF mw.Priority <= sorted[Len(sorted)].Priority
    THEN Append(insertAhead(SubSeq(sorted, 1, Len(sorted) - 1), mw), sorted[Len(sorted)])
    ELSE Append(sorted, mw)

RECURSIVE InsertStable(_, _)
InsertStable(sorted, mw) ==
    IF Len(sorted) = 0 THEN <<mw>>
    ELSE IF mw.Priority < sorted[Len(sorted)].Priority
    THEN Append(InsertStable(SubSeq(sorted, 1, Len(sorted) - 1), mw), sorted[Len(sorted)])
    ELSE Append(sorted, mw)

RECURSIVE SortStableFrom(_, _, _)
SortStableFrom(mws, i, acc) ==
    IF i > Len(mws) THEN acc ELSE SortStableFrom(mws, i + 1, InsertStable(acc, mws[i]))

SortStable(mws) == SortStableFrom(mws, 1, <<>>)

\* The wrapping loop of applyMiddlewares: h = mw.Middleware(h) for each entry
\* in order, nil entries (Middleware 0) skipped.  A handler's wraps lists its
\* layers from the innermost to the outermost.
RECURSIVE wrapFrom(_, _, _)
wrapFrom(h, ordered, i) ==
    IF i > Len(ordered) THEN h
    ELSE IF ordered[i].Middleware = 0 THEN wrapFrom(h, ordered, i + 1)
    ELSE wrapFrom([h EXCEPT !.wraps = Append(@, ordered[i])], ordered, i + 1)

\* The wrapping loop without the sort: the entries wrapped as collected.
wrapCollected(h, middlewares) == wrapFrom(h, middlewares, 1)

applyMiddlewares(h, middlewares) ==
    IF Len(middlewares) = 0 THEN h
    ELSE wrapFrom(h, SortStable(middlewares), 1)

(***************************************************************************)
(* Dispatch table builder (Router.buildHandler, serve.go).                 *)
(***************************************************************************)
\* The methods of a routeMethods joined from the greatest to the least: what
\* the Allow header would be if the sort were descending.
allowDescending(m) ==
    Join([i \in 1..Cardinality(DOMAIN m.byMethod) |->
             SortStrings(DOMAIN m.byMethod)[Cardinality(DOMAIN m.byMethod) + 1 - i]], ", ")

\* The methods of a routeMethods, sorted and joined: the Allow header value.
allowOf(m) == Join(SortStrings(DOMAIN m.byMethod), ", ")

EmptyMethods == [isNil |-> FALSE, byMethod |-> <<>>, allow |-> ""]

\* serve.go:188-196: "if m == nil { m = &routeMethods{...} }"
ensureMethods(m) == IF m.isNil THEN EmptyMethods ELSE m

\* serve.go:202-206: h = applyMiddlewares(e.Handler, ...); m.byMethod[e.Method] = h,
\* for the routeMethods m of pattern idx of patternRoutes (0: a static route).
putMethod(gs, st, e, i, path, idx, m) ==
    IF idx # 0
    THEN [st EXCEPT !.patternRoutes[idx].methods =
              [m EXCEPT !.byMethod = Put(@, e.Method,
                  applyMiddlewares([isNil |-> FALSE, ep |-> i, inner |-> e.Handler,
                                    wraps |-> <<>>],
                                   collectMiddlewares(gs, e.Group)))]]
    ELSE [st EXCEPT !.staticRoutes = Put(@, path,
              [m EXCEPT !.byMethod = Put(@, e.Method,
                  applyMiddlewares([isNil |-> FALSE, ep |-> i, inner |-> e.Handler,
                                    wraps |-> <<>>],
                                   collectMiddlewares(gs, e.Group)))])]

\* The registration without the duplicate check: the later handler replaces
\* the earlier one.
setMethodUnchecked(gs, st, e, i, path, idx, m) == putMethod(gs, st, e, i, path, idx, m)

\* serve.go:197-199: the duplicate check, then the registration
setMethod(gs, st, e, i, path, idx, m) ==
    IF Has(m.byMethod, e.Method)
    THEN [st EXCEPT !.err = "duplicate route: " \o e.Method \o " " \o path]
    ELSE putMethod(gs, st, e, i, path, idx, m)

\* serve.go:179-186: the pattern is new (existing = 0: it is appended and
\* indexed by its shape) or it is the existing one.
joinPattern(gs, st, e, i, pattern, existing) ==
    IF existing = 0
    THEN setMethod(gs, [st EXCEPT !.patternRoutes = Append(@, pattern),
                                  !.patternByShape = Put(@, pattern.shape,
                                                         Len(st.patternRoutes) + 1)],
                   e, i, pattern.path, Len(st.patternRoutes) + 1,
                   ensureMethods(pattern.methods))
    ELSE setMethod(gs, st, e, i, st.patternRoutes[existing].path, existing,
                   ensureMethods(st.patternRoutes[existing].methods))

\* A pattern with params joined to the pattern of its shape without the
\* comparison of the two paths.
withPatternUnchecked(gs, st, e, i, pattern, existing) ==
    joinPattern(gs, st, e, i, pattern, existing)

\* serve.go:174-186: a pattern with params; existing is the index in
\* patternRoutes that patternByShape holds for the shape (0: nil).
withPattern(gs, st, e, i, pattern, existing) ==
    IF existing # 0 /\ st.patternRoutes[existing].path # pattern.path
    THEN [st EXCEPT !.err = "ambiguous route: " \o pattern.path \o " conflicts with "
                                \o st.patternRoutes[existing].path]
    ELSE joinPattern(gs, st, e, i, pattern, existing)

\* serve.go:168-187 once the route is parsed
withParsed(gs, st, e, i, pattern) ==
    IF pattern.err # ""
    THEN [st EXCEPT !.err = "invalid route " \o e.Method \o " " \o e.Path \o ": "
                                \o pattern.err]
    ELSE IF Len(pattern.params) > 0
    THEN withPattern(gs, st, e, i, pattern,
                     IF Has(st.patternByShape, pattern.shape)
                     THEN st.patternByShape[pattern.shape] ELSE 0)
    ELSE setMethod(gs, st, e, i, pattern.path, 0,
                   ensureMethods(IF Has(st.staticRoutes, pattern.path)
                                 THEN st.staticRoutes[pattern.path] ELSE NilMethods))

\* One iteration of the loop over r.Handlers (serve.go:163-207); i is the
\* index of endpoint e in r.Handlers.  st.err # "" once the build has failed.
buildStep(gs, st, e, i) == withParsed(gs, st, e, i, parseRoutePattern(e.Path))

RECURSIVE buildLoop(_, _, _, _)
buildLoop(gs, hs, i, st) ==
    IF i > Len(hs) \/ st.err # "" THEN st
    ELSE buildLoop(gs, hs, i + 1, buildStep(gs, st, hs[i], i))

\* The two Allow loops (serve.go:210-231).
withAllow(m) ==
    IF m.isNil \/ Cardinality(DOMAIN m.byMethod) = 0 THEN m
    ELSE [m EXCEPT !.allow = allowOf(m)]

\* What buildHandler returns for the loop's outcome st: the (handler, error)
\* pair.  On an error the handler is nil: no table is returned.
tableOf(st, fallback0) ==
    IF st.err # ""
    THEN [called |-> TRUE, isNil |-> TRUE, err |-> st.err, staticRoutes |-> <<>>,
          patternRoutes |-> <<>>, fallback |-> NilHandler]
    ELSE [called |-> TRUE, isNil |-> FALSE, err |-> "",
          staticRoutes |-> [p \in DOMAIN st.staticRoutes |-> withAllow(st.staticRoutes[p])],
          patternRoutes |-> [k \in DOMAIN st.patternRoutes |->
                                [st.patternRoutes[k] EXCEPT !.methods = withAllow(@)]],
          fallback |-> fallback0]

\* Router.buildHandler without the sealing.
buildTable(gs, hs, fb) ==
    tableOf(buildLoop(gs, hs, 1, [err |-> "", staticRoutes |-> <<>>,
                                  patternRoutes |-> <<>>, patternByShape |-> <<>>]),
            IF fb.isNil THEN NilHandler
            ELSE applyMiddlewares(fb, collectMiddlewares(gs, 1)))

NotBuilt == [called |-> FALSE, isNil |-> TRUE, err |-> "", staticRoutes |-> <<>>,
             patternRoutes |-> <<>>, fallback |-> NilHandler]

(***************************************************************************)
(* Errors.  An error value is its Unwrap chain, outermost layer first:     *)
(* a StatusError layer [t |-> "status"], an fmt.Errorf("...: %w") layer      *)
(* [t |-> "wrap"] or an innermost plain error [t |-> "base"].  <<>> is nil. *)
(***************************************************************************)
NoErr == <<>>

BaseErr(msg) == <<[t |-> "base", status |-> 0, msg |-> msg]>>

\* fmt.Errorf(msg + ": %w", err)
WrapErr(msg, err) == <<[t |-> "wrap", status |-> 0, msg |-> msg]>> \o err

\* StatusError{Status: status, Err: err} (error.go)
StatusError(status, err) == <<[t |-> "status", status |-> status, msg |-> ""]>> \o err

\* err.Error(): StatusError.Error() is the wrapped error's text ("" when Err
\* is nil), an fmt.Errorf layer prefixes its own text.
RECURSIVE ErrorText(_)
ErrorText(err) ==
    IF Len(err) = 0 THEN ""
    ELSE IF err[1].t = "status" THEN ErrorText(Tail(err))
    ELSE IF err[1].t = "wrap" THEN err[1].msg \o ": " \o ErrorText(Tail(err))
    ELSE err[1].msg

\* errors.As(err, &se) for se of type StatusError: the first StatusError of
\* the chain.
RECURSIVE AsStatusError(_)
AsStatusError(err) ==
    IF Len(err) = 0 THEN [ok |-> FALSE, Status |-> 0]
    ELSE IF err[1].t = "status" THEN [ok |-> TRUE, Status |-> err[1].status]
    ELSE AsStatusError(Tail(err))

StatusOK == 200
StatusBadRequest == 400
StatusNotFound == 404
StatusMethodNotAllowed == 405
StatusInternalServerError == 500

(***************************************************************************)
(* http.ResponseWriter: the status line (0 until written), the headers and *)
(* the chunks written to the body.                                         *)
(***************************************************************************)
NewRecorder == [status |-> 0, header |-> <<>>, body |-> <<>>]

WriteHeader(w, status) == IF w.status = 0 THEN [w EXCEPT !.status = status] ELSE w

Write(w, chunk) ==
    [w EXCEPT !.status = IF @ = 0 THEN StatusOK ELSE @, !.body = Append(@, chunk)]

SetHeader(w, k, v) == [w EXCEPT !.header = Put(@, k, v)]

\* http.Error(w, text, code)
HttpError(w, text, code) ==
    Write(WriteHeader(SetHeader(w, "Content-Type", "text/plain; charset=utf-8"), code),
          [kind |-> "text", keys |-> {}, text |-> text])

(***************************************************************************)
(* DefaultCodec.EncodeError and DefaultCodec.Encode (encode.go).           *)
(***************************************************************************)
\* The status of a type assertion err.(StatusError) in place of errors.As:
\* only an outermost StatusError counts.
errorStatusAsserted(err) ==
    IF Len(err) > 0 /\ err[1].t = "status" /\ err[1].status # 0 THEN err[1].status
    ELSE StatusInternalServerError

\* The status EncodeError answers with.
errorStatus(err) ==
    LET se == AsStatusError(err) IN
    IF se.ok /\ se.Status # 0 THEN se.Status ELSE StatusInternalServerError

\* DefaultCodec.EncodeError: the writer afterwards (the JSON encoding of a
\* map[string]string does not fail, so the returned error is nil).
DefaultEncodeError(w, err) ==
    Write(WriteHeader(SetHeader(w, "Content-Type", "application/json"), errorStatus(err)),
          [kind |-> "json", keys |-> {"error"}, text |-> ErrorText(err)])

\* DefaultCodec.Encode: status is the codec's Status field; encodable tells
\* whether json.Encoder accepts the response value.  Nothing is written to
\* the body when the encoding fails.
DefaultEncode(w, status, encodable) ==
    LET w1 == SetHeader(w, "Content-Type", "application/json")
        w2 == IF status # 0 THEN WriteHeader(w1, status) ELSE w1
    IN IF encodable
       THEN [w |-> Write(w2, [kind |-> "json", keys |-> {"result"}, text |-> ""]), err |-> NoErr]
       ELSE [w |-> w2, err |-> WrapErr("encode response", BaseErr("json: unsupported value"))]

(***************************************************************************)
(* Characters: unicode.IsUpper / IsLower / IsDigit / ToLower on ASCII.     *)
(***************************************************************************)
LowerAlphabet == "abcdefghijklmnopqrstuvwxyz"

IsUpper(c) == Contains(UpperLetters, c)

IsLower(c) == c \in LowerLetters

IsDigit(c) == c \in Digits

ToLower(c) == IF IsUpper(c) THEN Ch(LowerAlphabet, CharRank(c)) ELSE c

ToUpper(c) ==
    IF IsLower(c)
    THEN Ch(UpperLetters, CHOOSE i \in 1..Len(LowerAlphabet) : Ch(LowerAlphabet, i) = c)
    ELSE c

\* textproto.CanonicalMIMEHeaderKey (used by http.Header.Values): the first
\* letter and every letter after a hyphen in upper case, the others in lower.
RECURSIVE canonicalFrom(_, _, _)
canonicalFrom(s, i, upper) ==
    IF i > Len(s) THEN ""
    ELSE LET c == Ch(s, i)
             d == IF upper THEN ToUpper(c) ELSE ToLower(c)
         IN d \o canonicalFrom(s, i + 1, c = "-")

CanonicalMIMEHeaderKey(s) == canonicalFrom(s, 1, TRUE)

\* The rune loop of toSnakeCase (gen-ts.go): st = [out, prev, wrote].
RECURSIVE snakeFrom(_, _, _)
snakeFrom(s, i, st) ==
    IF i > Len(s) THEN st.out
    ELSE LET r == Ch(s, i) IN
      IF r = "_" \/ r = "-" \/ r = " "
      THEN snakeFrom(s, i + 1,
               IF Len(st.out) > 0 /\ ~st.wrote
               THEN [out |-> st.out \o "_", prev |-> r, wrote |-> TRUE]
               ELSE [st EXCEPT !.prev = r])
      ELSE IF IsUpper(r)
      THEN LET nextLower == i + 1 <= Len(s) /\ IsLower(Ch(s, i + 1))
               sep == Len(st.out) > 0 /\ ~st.wrote
                      /\ (IsLower(st.prev) \/ IsDigit(st.prev) \/ nextLower)
           IN snakeFrom(s, i + 1,
                  [out |-> (IF sep THEN st.out \o "_" ELSE st.out) \o ToLower(r),
                   prev |-> r, wrote |-> FALSE])
      ELSE IF IsLower(r) \/ IsDigit(r)
      THEN snakeFrom(s, i + 1, [out |-> st.out \o r, prev |-> r, wrote |-> FALSE])
      ELSE snakeFrom(s, i + 1, [st EXCEPT !.prev = r])

\* strings.TrimSpace is the identity on Go field names.
toSnakeCase(s) ==
    IF s = "" THEN ""
    ELSE Trim(snakeFrom(s, 1, [out |-> "", prev |-> "", wrote |-> FALSE]), "_")

(***************************************************************************)
(* Go types and values.  A type is named; GoType gives its reflect.Kind,   *)
(* its bit size, its element type (slices, pointers), whether a pointer to *)
(* it implements encoding.TextUnmarshaler, and the fields of a struct.     *)
(* A value is [n, s, l]: the number of an integer or bool kind, the text   *)
(* of a string, float or time, the elements of a slice or non-nil pointer. *)
(* A struct value maps field names to values.                              *)
(***************************************************************************)
NoTag == "<no tag>"

Field(name, type, query, json, path, header) ==
    [Name |-> name, Type |-> type, query |-> query, json |-> json,
     path |-> path, header |-> header]

Scalar(kind, bits, elem, text) ==
    [kind |-> kind, bits |-> bits, elem |-> elem, text |-> text, fields |-> <<>>]

Struct(fields) ==
    [kind |-> "struct", bits |-> 0, elem |-> "", text |-> FALSE, fields |-> fields]

GoType(name) ==
    CASE name = "string" -> Scalar("string", 0, "", FALSE)
      [] name = "bool" -> Scalar("bool", 0, "", FALSE)
      [] name = "int" -> Scalar("int", 64, "", FALSE)
      [] name = "int8" -> Scalar("int", 8, "", FALSE)
      [] name = "uint8" -> Scalar("uint", 8, "", FALSE)
      [] name = "float64" -> Scalar("float", 64, "", FALSE)
      [] name = "[]string" -> Scalar("slice", 0, "string", FALSE)
      [] name = "[]int" -> Scalar("slice", 0, "int", FALSE)
      [] name = "[]byte" -> Scalar("slice", 0, "uint8", FALSE)
      [] name = "*int" -> Scalar("ptr", 0, "int", FALSE)
      [] name = "time.Time" -> Scalar("struct", 0, "", TRUE)
      [] name = "chan int" -> Scalar("chan", 0, "", FALSE)
      \* request types
      [] name = "struct{}" -> Struct(<<>>)
      [] name = "userReq" -> Struct(<<Field("ID", "int", "id", NoTag, NoTag, NoTag)>>)
      [] name = "nameReq" -> Struct(<<Field("Name", "string", "name", NoTag, NoTag, NoTag)>>)
      [] name = "sinceReq" -> Struct(<<Field("Since", "time.Time", NoTag, "since", NoTag, NoTag)>>)
      \* meta types
      [] name = "userMeta" -> Struct(<<Field("ID", "int", NoTag, NoTag, "id", NoTag)>>)
      [] name = "nameMeta" -> Struct(<<Field("ID", "string", NoTag, NoTag, "id", NoTag)>>)
      [] name = "sinceMeta" -> Struct(<<Field("ID", "time.Time", NoTag, NoTag, "id", NoTag)>>)
      [] name = "authMeta" ->
            Struct(<<Field("Authorization", "string", NoTag, NoTag, NoTag, "authorization"),
                     Field("RequestID", "string", NoTag, NoTag, NoTag, "x-request-id,omitempty")>>)
      [] name = "optMeta" ->
            Struct(<<Field("RequestID", "string", NoTag, NoTag, NoTag, "x-request-id,omitempty")>>)
      [] name = "stampMeta" ->
            Struct(<<Field("Stamp", "time.Time", NoTag, NoTag, NoTag, "x-stamp"),
                     Field("RequestID", "string", NoTag, NoTag, NoTag, "x-request-id,omitempty")>>)
      [] name = "bothMeta" -> Struct(<<Field("ID", "int", NoTag, NoTag, "id", "x-id")>>)
      [] name = "otherMeta" -> Struct(<<Field("Key", "int", NoTag, NoTag, "key", NoTag)>>)
      [] name = "twoPathMeta" ->
            Struct(<<Field("ID", "string", NoTag, NoTag, "id", NoTag),
                     Field("Again", "string", NoTag, NoTag, "id", NoTag)>>)
      [] name = "twoHeaderMeta" ->
            Struct(<<Field("ID", "string", NoTag, NoTag, "id", NoTag),
                     Field("Trace", "string", NoTag, NoTag, NoTag, "x-trace"),
                     Field("Again", "string", NoTag, NoTag, NoTag, "x-trace,omitempty")>>)
      [] name = "camelMeta" -> Struct(<<Field("ID", "string", NoTag, NoTag, "userID", NoTag)>>)
      \* struct { V T `json:"v"` } for a field type T
      [] HasPrefix(name, "struct{V ") ->
            Struct(<<Field("V", SubSeq(name, 10, Len(name) - 1), NoTag, "v", NoTag, NoTag)>>)
      [] OTHER -> Scalar("invalid", 0, "", FALSE)

ZeroVal == [n |-> 0, s |-> "", l |-> <<>>]

\* The zero value of a struct type: every field zero.
ZeroStruct(name) ==
    LET fs == GoType(name).fields
    IN [f \in {fs[i].Name : i \in DOMAIN fs} |-> ZeroVal]

(***************************************************************************)
(* strconv: ParseBool, ParseInt, ParseUint, ParseFloat (base 10).          *)
(***************************************************************************)
RECURSIVE Pow2(_)
Pow2(n) == IF n = 0 THEN 1 ELSE 2 * Pow2(n - 1)

DigitVal(c) == (CHOOSE i \in 1..10 : Ch("0123456789", i) = c) - 1

AllDigits(s) == Len(s) > 0 /\ \A i \in 1..Len(s) : IsDigit(Ch(s, i))

RECURSIVE NatOf(_, _, _)
NatOf(s, i, acc) == IF i > Len(s) THEN acc ELSE NatOf(s, i + 1, 10 * acc + DigitVal(Ch(s, i)))

ParseBool(s) ==
    IF s \in {"1", "t", "T", "TRUE", "true", "True"} THEN [ok |-> TRUE, n |-> 1]
    ELSE IF s \in {"0", "f", "F", "FALSE", "false", "False"} THEN [ok |-> TRUE, n |-> 0]
    ELSE [ok |-> FALSE, n |-> 0]

ParseInt(s, bits) ==
    LET signed == Len(s) > 0 /\ Ch(s, 1) \in {"+", "-"}
        digits == IF signed THEN SubSeq(s, 2, Len(s)) ELSE s
    IN IF ~AllDigits(digits) THEN [ok |-> FALSE, n |-> 0]
       ELSE LET mag == NatOf(digits, 1, 0)
                n == IF signed /\ Ch(s, 1) = "-" THEN 0 - mag ELSE mag
            IN IF n < 0 - Pow2(bits - 1) \/ n > Pow2(bits - 1) - 1
               THEN [ok |-> FALSE, n |-> 0] ELSE [ok |-> TRUE, n |-> n]

ParseUint(s, bits) ==
    IF ~AllDigits(s) THEN [ok |-> FALSE, n |-> 0]
    ELSE LET n == NatOf(s, 1, 0)
         IN IF n > Pow2(bits) - 1 THEN [ok |-> FALSE, n |-> 0] ELSE [ok |-> TRUE, n |-> n]

\* Decimal notation only (no exponent, no "inf"/"nan"): the float keeps its text.
ParseFloat(s) ==
    LET signed == Len(s) > 0 /\ Ch(s, 1) \in {"+", "-"}
        body == IF signed THEN SubSeq(s, 2, Len(s)) ELSE s
        parts == Split(body, ".")
    IN [ok |-> /\ Len(parts) <= 2
               /\ \A i \in 1..Len(parts) : AllDigits(parts[i]),
        s |-> s]

\* time.Time.UnmarshalText / time.Parse(time.RFC3339, s) on the time stamps
\* the model sends.
ValidRFC3339 == {"2024-01-02T03:04:05Z"}

(***************************************************************************)
(* Field coercion (setFromStrings, encode.go).                             *)
(***************************************************************************)
\* The TextUnmarshaler branch: the pointer to the value must implement
\* encoding.TextUnmarshaler, and its UnmarshalText gets the first value.
unmarshalText(type, vals) ==
    IF ~GoType(type).text
    THEN [err |-> BaseErr("type " \o type \o " does not implement TextUnmarshaler"),
          val |-> ZeroVal]
    ELSE IF vals[1] \notin ValidRFC3339
    THEN [err |-> WrapErr("unmarshal text", BaseErr("parsing time")), val |-> ZeroVal]
    ELSE [err |-> NoErr, val |-> [n |-> 0, s |-> vals[1], l |-> <<>>]]

\* The outcomes of the conversions of the kind switch.
numResult(r, what) ==
    IF ~r.ok THEN [err |-> WrapErr(what, BaseErr("invalid syntax")), val |-> ZeroVal]
    ELSE [err |-> NoErr, val |-> [n |-> r.n, s |-> "", l |-> <<>>]]

floatResult(r) ==
    IF ~r.ok THEN [err |-> WrapErr("parse float", BaseErr("invalid syntax")), val |-> ZeroVal]
    ELSE [err |-> NoErr, val |-> [n |-> 0, s |-> r.s, l |-> <<>>]]

ptrResult(r) ==
    IF r.err # NoErr THEN r
    ELSE [err |-> NoErr, val |-> [n |-> 0, s |-> "", l |-> <<r.val>>]]

\* setFromStrings(v, vals) on a settable value of the named type that holds
\* its zero value; canAddr is v.CanAddr().  The value afterwards, or an error.
RECURSIVE setFromStrings(_, _, _)
RECURSIVE setElems(_, _, _, _)
RECURSIVE setElem(_, _, _, _, _)
RECURSIVE setKind(_, _, _)

\* The element loop of the slice case.
setElems(elem, vals, i, acc) ==
    IF i > Len(vals) THEN [err |-> NoErr, val |-> [n |-> 0, s |-> "", l |-> acc]]
    ELSE setElem(elem, vals, i, acc, setFromStrings(elem, <<vals[i]>>, TRUE))

setElem(elem, vals, i, acc, r) ==
    IF r.err # NoErr THEN [err |-> r.err, val |-> ZeroVal]
    ELSE setElems(elem, vals, i + 1, Append(acc, r.val))

\* The switch on v.Kind(); t is GoType(type).
setKind(type, t, vals) ==
    CASE t.kind = "ptr" -> ptrResult(setFromStrings(t.elem, vals, TRUE))
      [] t.kind = "string" -> [err |-> NoErr, val |-> [n |-> 0, s |-> vals[1], l |-> <<>>]]
      [] t.kind = "bool" -> numResult(ParseBool(vals[1]), "parse bool")
      [] t.kind = "int" -> numResult(ParseInt(vals[1], t.bits), "parse int")
      [] t.kind = "uint" -> numResult(ParseUint(vals[1], t.bits), "parse uint")
      [] t.kind = "float" -> floatResult(ParseFloat(vals[1]))
      [] t.kind = "slice" ->
           IF t.elem = "uint8"
           THEN [err |-> NoErr, val |-> [n |-> 0, s |-> vals[1], l |-> <<>>]]
           ELSE setElems(t.elem, vals, 1, <<>>)
      [] t.kind = "struct" ->
           IF type = "time.Time"
           THEN IF vals[1] \in ValidRFC3339
                THEN [err |-> NoErr, val |-> [n |-> 0, s |-> vals[1], l |-> <<>>]]
                ELSE [err |-> WrapErr("parse time", BaseErr("parsing time")), val |-> ZeroVal]
           ELSE [err |-> BaseErr("unsupported struct type " \o type), val |-> ZeroVal]
      [] OTHER -> [err |-> BaseErr("unsupported kind " \o t.kind), val |-> ZeroVal]

setFromStrings(type, vals, canAddr) ==
    IF Len(vals) = 0 THEN [err |-> NoErr, val |-> ZeroVal]
    ELSE IF canAddr THEN unmarshalText(type, vals)
    ELSE setKind(type, GoType(type), vals)

(***************************************************************************)
(* Struct tags (tagName, queryFieldName in encode.go; parseMetaTag).       *)
(***************************************************************************)
\* tagName(f, key) for the raw tag text: [name, found, skip]
tagName(tag) ==
    IF tag = NoTag THEN [name |-> "", found |-> FALSE, skip |-> FALSE]
    ELSE IF tag = "-" THEN [name |-> "", found |-> TRUE, skip |-> TRUE]
    ELSE [name |-> Split(tag, ",")[1], found |-> TRUE, skip |-> FALSE]

\* "if name == "" { name = f.Name }"
orName(s, name) == IF s = "" THEN name ELSE s

\* queryFieldName: the query tag, else the json tag, else the snake-cased
\* field name: [name, skip, err]
queryFieldName(f) ==
    LET q == tagName(f.query)
        j == tagName(f.json)
    IN IF q.found /\ q.skip THEN [name |-> "", skip |-> TRUE, err |-> NoErr]
       ELSE IF q.found /\ q.name # "" THEN [name |-> q.name, skip |-> FALSE, err |-> NoErr]
       ELSE IF j.found /\ j.skip THEN [name |-> "", skip |-> TRUE, err |-> NoErr]
       ELSE IF j.found /\ j.name # "" THEN [name |-> j.name, skip |-> FALSE, err |-> NoErr]
       ELSE IF f.Name = "" THEN [name |-> "", skip |-> FALSE, err |-> BaseErr("empty field name")]
       ELSE [name |-> orName(toSnakeCase(f.Name), f.Name), skip |-> FALSE, err |-> NoErr]

NoMetaTag == [name |-> "", omitempty |-> FALSE, found |-> FALSE, skip |-> FALSE, err |-> NoErr]

\* parseMetaTag(owner, f, key, requireSnakeCase) for the raw tag text
\* (strings.TrimSpace is the identity on the tag names used here).
parseMetaTag(tag, key, requireSnakeCase) ==
    IF tag = NoTag THEN NoMetaTag
    ELSE IF tag = "-" THEN [NoMetaTag EXCEPT !.found = TRUE, !.skip = TRUE]
    ELSE LET parts == Split(tag, ",")
             name == parts[1]
             omit == \E i \in 2..Len(parts) : parts[i] = "omitempty"
         IN IF name = ""
            THEN [NoMetaTag EXCEPT !.err = BaseErr(key \o " tag must specify a name")]
            ELSE IF requireSnakeCase /\ ~isSnakeCase(name)
            THEN [NoMetaTag EXCEPT !.err = BaseErr(key \o " tag must be snake_case")]
            ELSE [name |-> name, omitempty |-> omit, found |-> TRUE, skip |-> FALSE,
                  err |-> NoErr]

(***************************************************************************)
(* Request decoding (decodeQueryParams in encode.go, DefaultCodec.DecodeBody,*)
(* decodeRequestMeta and validateMetaType).  Every field of the model's    *)
(* struct types is exported and not embedded.                              *)
(***************************************************************************)
\* The field loop of decodeQueryParams over fields[i..]; val is the request
\* value so far.
RECURSIVE queryFields(_, _, _, _)
RECURSIVE queryField(_, _, _, _, _)
RECURSIVE querySet(_, _, _, _, _, _)

queryFields(fields, values, i, val) ==
    IF i > Len(fields) THEN [err |-> NoErr, val |-> val]
    ELSE queryField(fields, values, i, val, queryFieldName(fields[i]))

\* encode.go:114-128: qn is what queryFieldName returned for fields[i]
queryField(fields, values, i, val, qn) ==
    IF qn.err # NoErr THEN [err |-> qn.err, val |-> val]
    ELSE IF qn.skip \/ ~Has(values, qn.name) THEN queryFields(fields, values, i + 1, val)
    ELSE querySet(fields, values, i, val, qn.name,
                  setFromStrings(fields[i].Type, values[qn.name], TRUE))

\* encode.go:130-136: r is what setFromStrings made of the values of name
querySet(fields, values, i, val, name, r) ==
    IF r.err # NoErr THEN [err |-> WrapErr("decode query " \o name, r.err), val |-> val]
    ELSE queryFields(fields, values, i + 1,
                     IF Len(values[name]) = 0 THEN val
                     ELSE [val EXCEPT ![fields[i].Name] = r.val])

\* decodeQueryParams[Req](r): values is r.URL.Query()
decodeQueryParams(type, values) ==
    IF Cardinality(DOMAIN values) = 0 THEN [err |-> NoErr, val |-> ZeroStruct(type)]
    ELSE IF GoType(type).kind # "struct"
    THEN [err |-> BaseErr("decode query: request type must be a struct"),
          val |-> ZeroStruct(type)]
    ELSE queryFields(GoType(type).fields, values, 1, ZeroStruct(type))

\* encoding/json on a body that holds a JSON object: a member is matched to
\* the field with that json name; a number goes into an integer field, a
\* string into a string field, anything else is an UnmarshalTypeError.
RECURSIVE LowerStr(_)
LowerStr(s) == IF Len(s) = 0 THEN "" ELSE ToLower(Ch(s, 1)) \o LowerStr(SubSeq(s, 2, Len(s)))

jsonName(f) == IF tagName(f.json).found /\ tagName(f.json).name # ""
               THEN tagName(f.json).name ELSE f.Name

\* The member of the object that field f takes (matched without regard to case).
jsonKeys(obj, f) == {k \in DOMAIN obj : LowerStr(k) = LowerStr(jsonName(f))}

RECURSIVE jsonFields(_, _, _, _)
RECURSIVE jsonField(_, _, _, _, _, _)
RECURSIVE jsonInt(_, _, _, _, _)

jsonFields(fields, obj, i, val) ==
    IF i > Len(fields) THEN [err |-> NoErr, val |-> val]
    ELSE IF jsonKeys(obj, fields[i]) = {} THEN jsonFields(fields, obj, i + 1, val)
    ELSE jsonField(fields, obj, i, val, GoType(fields[i].Type),
                   obj[CHOOSE k \in jsonKeys(obj, fields[i]) : TRUE])

\* The member jv goes into field i, of type t.
jsonField(fields, obj, i, val, t, jv) ==
    IF t.kind = "int" /\ jv.t = "number"
    THEN jsonInt(fields, obj, i, val, ParseInt(jv.text, t.bits))
    ELSE IF t.kind = "string" /\ jv.t = "string"
    THEN jsonFields(fields, obj, i + 1,
                    [val EXCEPT ![fields[i].Name] = [n |-> 0, s |-> jv.text, l |-> <<>>]])
    ELSE [err |-> BaseErr("json: cannot unmarshal " \o jv.t), val |-> val]

jsonInt(fields, obj, i, val, r) ==
    IF r.ok
    THEN jsonFields(fields, obj, i + 1,
                    [val EXCEPT ![fields[i].Name] = [n |-> r.n, s |-> "", l |-> <<>>]])
    ELSE [err |-> BaseErr("json: cannot unmarshal number"), val |-> val]

\* "return req, fmt.Errorf("decode request: %w", err)"
wrapDecode(r) ==
    IF r.err # NoErr THEN [err |-> WrapErr("decode request", r.err), val |-> r.val] ELSE r

\* DefaultCodec.DecodeBody: a nil body and an exhausted body (io.EOF) give the
\* zero value without an error.
DefaultDecodeBody(type, body) ==
    IF body.kind = "nil" THEN [err |-> NoErr, val |-> ZeroStruct(type)]
    ELSE IF body.kind = "empty" THEN [err |-> NoErr, val |-> ZeroStruct(type)]
    ELSE IF body.kind = "malformed"
    THEN [err |-> WrapErr("decode request", BaseErr("invalid character")),
          val |-> ZeroStruct(type)]
    ELSE wrapDecode(jsonFields(GoType(type).fields, body.obj, 1, ZeroStruct(type)))

\* r.Header.Values(name)
headerValues(header, name) ==
    IF Has(header, CanonicalMIMEHeaderKey(name)) THEN header[CanonicalMIMEHeaderKey(name)]
    ELSE <<>>

\* The field loop of decodeRequestMeta over fields[i..]: field is the index
\* of the field the decoding failed at (0: none).
RECURSIVE metaFields(_, _, _, _, _)
RECURSIVE metaField(_, _, _, _, _, _, _)
RECURSIVE metaSet(_, _, _, _, _, _, _)
RECURSIVE absentHeader(_, _, _, _, _, _)

\* An absent header skipped whether or not the tag says omitempty.
absentHeaderSkipped(fields, pathParams, header, i, val, headerTag) ==
    metaFields(fields, pathParams, header, i + 1, val)

\* "if len(vals) == 0": an omitempty field is skipped, another one fails.
absentHeader(fields, pathParams, header, i, val, headerTag) ==
    IF headerTag.omitempty
    THEN metaFields(fields, pathParams, header, i + 1, val)
    ELSE [err |-> BaseErr("missing header " \o headerTag.name), val |-> val, field |-> i]

metaFields(fields, pathParams, header, i, val) ==
    IF i > Len(fields) THEN [err |-> NoErr, val |-> val, field |-> 0]
    ELSE metaField(fields, pathParams, header, i, val,
                   parseMetaTag(fields[i].path, "path", TRUE),
                   parseMetaTag(fields[i].header, "header", FALSE))

\* The body of the loop once the two tags of fields[i] are parsed.
metaField(fields, pathParams, header, i, val, pathTag, headerTag) ==
    IF pathTag.err # NoErr THEN [err |-> pathTag.err, val |-> val, field |-> i]
    ELSE IF headerTag.err # NoErr THEN [err |-> headerTag.err, val |-> val, field |-> i]
    ELSE IF pathTag.found /\ headerTag.found
    THEN [err |-> BaseErr("cannot use both path and header tags"), val |-> val, field |-> i]
    ELSE IF pathTag.found
    THEN IF pathTag.skip THEN metaFields(fields, pathParams, header, i + 1, val)
         ELSE IF ~Has(pathParams, pathTag.name)
         THEN [err |-> BaseErr("missing path param " \o pathTag.name), val |-> val, field |-> i]
         ELSE metaSet(fields, pathParams, header, i, val, "decode path " \o pathTag.name,
                      setFromStrings(fields[i].Type, <<pathParams[pathTag.name]>>, TRUE))
    ELSE IF headerTag.found
    THEN IF headerTag.skip THEN metaFields(fields, pathParams, header, i + 1, val)
         ELSE IF Len(headerValues(header, headerTag.name)) = 0
         THEN absentHeader(fields, pathParams, header, i, val, headerTag)
         ELSE metaSet(fields, pathParams, header, i, val, "decode header " \o headerTag.name,
                      setFromStrings(fields[i].Type, headerValues(header, headerTag.name), TRUE))
    ELSE metaFields(fields, pathParams, header, i + 1, val)

\* r is what setFromStrings made of the value(s) for fields[i].
metaSet(fields, pathParams, header, i, val, what, r) ==
    IF r.err # NoErr THEN [err |-> WrapErr(what, r.err), val |-> val, field |-> i]
    ELSE metaFields(fields, pathParams, header, i + 1, [val EXCEPT ![fields[i].Name] = r.val])

\* decodeRequestMeta[Meta](r): pathParams is the Path Parameter Bag of the
\* request context (the empty map when none is attached), header is r.Header.
decodeRequestMeta(type, pathParams, header) ==
    IF GoType(type).kind # "struct"
    THEN [err |-> BaseErr("decode meta: request meta type must be a struct"),
          val |-> <<>>, field |-> 0]
    ELSE metaFields(GoType(type).fields, pathParams, header, 1, ZeroStruct(type))

\* The field loop of validateMetaType over fields[i..].
RECURSIVE validateFields(_, _, _, _, _)
RECURSIVE validateField(_, _, _, _, _, _, _)

validateFields(fields, params, i, seenPath, seenHeader) ==
    IF i > Len(fields) THEN NoErr
    ELSE validateField(fields, params, i, seenPath, seenHeader,
                       parseMetaTag(fields[i].path, "path", TRUE),
                       parseMetaTag(fields[i].header, "header", FALSE))

validateField(fields, params, i, seenPath, seenHeader, pathTag, headerTag) ==
    IF pathTag.err # NoErr THEN pathTag.err
    ELSE IF headerTag.err # NoErr THEN headerTag.err
    ELSE IF pathTag.found /\ headerTag.found
    THEN BaseErr("cannot use both path and header tags")
    ELSE IF pathTag.found /\ pathTag.skip
    THEN validateFields(fields, params, i + 1, seenPath, seenHeader)
    ELSE IF pathTag.found /\ ~(\E k \in 1..Len(params) : params[k] = pathTag.name)
    THEN BaseErr("path tag " \o pathTag.name \o " does not match route")
    ELSE IF pathTag.found /\ pathTag.name \in seenPath
    THEN BaseErr("path tag " \o pathTag.name \o " is used more than once")
    ELSE IF headerTag.found /\ headerTag.skip
    THEN validateFields(fields, params, i + 1,
                        IF pathTag.found THEN seenPath \cup {pathTag.name} ELSE seenPath,
                        seenHeader)
    ELSE IF headerTag.found /\ headerTag.name \in seenHeader
    THEN BaseErr("header tag " \o headerTag.name \o " is used more than once")
    ELSE validateFields(fields, params, i + 1,
                        IF pathTag.found THEN seenPath \cup {pathTag.name} ELSE seenPath,
                        IF headerTag.found THEN seenHeader \cup {headerTag.name} ELSE seenHeader)

\* The outcome of validateMetaType once the route is parsed.
validateParsed(meta, pattern) ==
    IF pattern.err # "" THEN BaseErr(pattern.err)
    ELSE validateFields(GoType(meta).fields, pattern.params, 1, {}, {})

\* The validation looking at the kind of the meta type only.
validateKindOnly(meta, path) ==
    IF GoType(meta).kind # "struct" THEN BaseErr("request meta type must be a struct")
    ELSE NoErr

\* validateMetaType(meta, path): NoErr when the meta type fits the route
validateMetaType(meta, path) ==
    IF GoType(meta).kind # "struct" THEN BaseErr("request meta type must be a struct")
    ELSE validateParsed(meta, parseRoutePattern(path))

(***************************************************************************)
(* Codecs.  DefaultCodec, and the codec of the package's pipeline test     *)
(* (testCodec in serve_test.go): its decoders return decodeErr or the zero *)
(* value, its Encode writes nothing, its EncodeError answers with          *)
(* http.Error(w, err.Error(), 400); failing makes its EncodeError and      *)
(* Encode return an error without writing.                                 *)
(***************************************************************************)
DefaultCodec == [kind |-> "default", Status |-> 0, decodeErr |-> NoErr, failing |-> FALSE]

TestCodec(decodeErr, failing) ==
    [kind |-> "test", Status |-> 0, decodeErr |-> decodeErr, failing |-> failing]

\* A codec that embeds DefaultCodec and overrides DecodeBody and DecodeQuery
\* to return decodeErr: its Encode and EncodeError are DefaultCodec's.
EmbeddingCodec(decodeErr) ==
    [kind |-> "embedding", Status |-> 0, decodeErr |-> decodeErr, failing |-> FALSE]

\* codec.DecodeBody(r) whatever the method.
decodeBodyAlways(codec, type, r) ==
    IF codec.kind = "default" THEN DefaultDecodeBody(type, r.Body)
    ELSE [err |-> codec.decodeErr, val |-> ZeroStruct(type)]

\* codec.DecodeQuery(r) / codec.DecodeBody(r) as adaptHandler chooses them
codecDecode(codec, type, r) ==
    IF codec.kind = "default"
    THEN IF r.Method = "GET" THEN decodeQueryParams(type, r.Query)
         ELSE DefaultDecodeBody(type, r.Body)
    ELSE [err |-> codec.decodeErr, val |-> ZeroStruct(type)]

\* codec.EncodeError(w, err): the writer afterwards and the error returned
codecEncodeError(codec, w, err) ==
    IF codec.kind \in {"default", "embedding"}
    THEN [w |-> DefaultEncodeError(w, err), err |-> NoErr]
    ELSE IF codec.failing THEN [w |-> w, err |-> BaseErr("encode error failed")]
    ELSE [w |-> HttpError(w, ErrorText(err), StatusBadRequest), err |-> NoErr]

\* codec.Encode(w, res)
codecEncode(codec, w, encodable) ==
    IF codec.kind \in {"default", "embedding"}
    THEN DefaultEncode(w, codec.Status, encodable)
    ELSE IF codec.failing THEN [w |-> w, err |-> BaseErr("encode failed")]
    ELSE [w |-> w, err |-> NoErr]

(***************************************************************************)
(* Typed Handler Pipeline (adaptHandler, adaptHandlerWithMeta, handler.go).*)
(***************************************************************************)
Event(ev, id) == [ev |-> ev, id |-> id]

\* The events of entering (outermost layer first) and leaving (innermost
\* first) the layers of a chain listed from the innermost to the outermost.
RECURSIVE Entering(_, _)
Entering(layers, ev) ==
    IF Len(layers) = 0 THEN <<>>
    ELSE <<Event(ev, layers[Len(layers)])>> \o Entering(SubSeq(layers, 1, Len(layers) - 1), ev)

RECURSIVE Leaving(_, _)
Leaving(layers, ev) ==
    IF Len(layers) = 0 THEN <<>>
    ELSE <<Event(ev, layers[1])>> \o Leaving(Tail(layers), ev)

\* What one run of a pipeline leaves behind.
PipeResult(w, calls, decodeErr, field, encodeErrorArgs, encodeCalls, handlerCalls, reqVal, metaVal) ==
    [w |-> w, calls |-> calls, decodeErr |-> decodeErr, field |-> field,
     encodeErrorArgs |-> encodeErrorArgs, encodeCalls |-> encodeCalls,
     handlerCalls |-> handlerCalls, reqVal |-> reqVal, metaVal |-> metaVal]

\* "if encodeErr != nil { http.Error(w, ..., 500) }": the writer after a codec
\* call that returned [w, err]
afterEncode(en) ==
    IF en.err # NoErr
    THEN HttpError(en.w, "Internal Server Error", StatusInternalServerError)
    ELSE en.w

\* The typed handler with its typed middlewares around it.
typedCalls(e, h) ==
    Entering(h.typed, "typed-before") \o <<Event("handler", e)>>
        \o Leaving(h.typed, "typed-after")

\* The pipelines without the return after the EncodeError of a decode
\* failure: the handler and Encode run all the same.
pipelineWithoutReturn(e, h, w, dec, meta, hres) ==
    IF dec.err # NoErr \/ meta.err # NoErr
    THEN PipeResult(afterEncode(codecEncode(h.codec,
                        afterEncode(codecEncodeError(h.codec, w,
                            StatusError(StatusBadRequest,
                                        IF dec.err # NoErr THEN dec.err ELSE meta.err))),
                        hres.encodable)),
                    typedCalls(e, h), IF dec.err # NoErr THEN dec.err ELSE meta.err,
                    meta.field,
                    <<StatusError(StatusBadRequest,
                                  IF dec.err # NoErr THEN dec.err ELSE meta.err)>>,
                    1, 1, dec.val, meta.val)
    ELSE PipeResult(afterEncode(codecEncode(h.codec, w, hres.encodable)),
                    typedCalls(e, h), NoErr, 0, <<>>, 1, 1, dec.val, meta.val)

\* The pipelines with the decoding done inside the typed middlewares: they
\* are entered and left on a decode failure too.
pipelineDecodingInside(e, h, w, dec, meta, hres) ==
    IF dec.err # NoErr \/ meta.err # NoErr
    THEN PipeResult(afterEncode(codecEncodeError(h.codec, w,
                        StatusError(StatusBadRequest,
                                    IF dec.err # NoErr THEN dec.err ELSE meta.err))),
                    Entering(h.typed, "typed-before") \o Leaving(h.typed, "typed-after"),
                    IF dec.err # NoErr THEN dec.err ELSE meta.err, meta.field,
                    <<StatusError(StatusBadRequest,
                                  IF dec.err # NoErr THEN dec.err ELSE meta.err)>>,
                    0, 0, <<>>, <<>>)
    ELSE IF hres.err # NoErr
    THEN PipeResult(afterEncode(codecEncodeError(h.codec, w, hres.err)),
                    typedCalls(e, h), NoErr, 0, <<hres.err>>, 0, 1, dec.val, meta.val)
    ELSE PipeResult(afterEncode(codecEncode(h.codec, w, hres.encodable)),
                    typedCalls(e, h), NoErr, 0, <<>>, 1, 1, dec.val, meta.val)

\* The part of both pipelines after the decoding: dec is [err, val] of the
\* request, meta is [err, val, field] of the metadata; hres is what the user's
\* typed handler returns: [err, encodable].
pipelineTail(e, h, w, dec, meta, hres) ==
    IF dec.err # NoErr \/ meta.err # NoErr
    THEN PipeResult(afterEncode(codecEncodeError(h.codec, w,
                        StatusError(StatusBadRequest,
                                    IF dec.err # NoErr THEN dec.err ELSE meta.err))),
                    <<>>, IF dec.err # NoErr THEN dec.err ELSE meta.err, meta.field,
                    <<StatusError(StatusBadRequest,
                                  IF dec.err # NoErr THEN dec.err ELSE meta.err)>>,
                    0, 0, <<>>, <<>>)
    ELSE IF hres.err # NoErr
    THEN PipeResult(afterEncode(codecEncodeError(h.codec, w, hres.err)),
                    typedCalls(e, h), NoErr, 0, <<hres.err>>, 0, 1, dec.val, meta.val)
    ELSE PipeResult(afterEncode(codecEncode(h.codec, w, hres.encodable)),
                    typedCalls(e, h), NoErr, 0, <<>>, 1, 1, dec.val, meta.val)

NoMeta == [err |-> NoErr, val |-> <<>>, field |-> 0]

\* adaptHandler(codec, handler).ServeHTTP(w, r) for endpoint e
adaptHandler(e, h, w, r, hres) ==
    pipelineTail(e, h, w, codecDecode(h.codec, h.Req, r), NoMeta, hres)

\* "if err == nil { meta, err = decodeRequestMeta[Meta](r) }"
metaAfter(h, dec, params, header) ==
    IF dec.err = NoErr THEN decodeRequestMeta(h.Meta, params, header) ELSE NoMeta

\* adaptHandlerWithMeta once the request value is decoded
withDecoded(e, h, w, r, params, hres, dec) ==
    pipelineTail(e, h, w, dec, metaAfter(h, dec, params, r.Header), hres)

\* adaptHandlerWithMeta(codec, handler).ServeHTTP(w, r): params is the Path
\* Parameter Bag of r's context
adaptHandlerWithMeta(e, h, w, r, params, hres) ==
    withDecoded(e, h, w, r, params, hres, codecDecode(h.codec, h.Req, r))

(***************************************************************************)
(* Serve phase: the closure returned by Router.buildHandler (serve.go).    *)
(***************************************************************************)
StatusTeapot == 418

\* ctx.Value(pathParamsKey{}).(map[string]string): the nil map when no bag
\* is attached (a nil map has no keys).
ctxPathParams(bag) == IF bag.attached THEN bag.values ELSE EmptyMap

\* The identities of the layers of a handler, innermost first.
LayerIds(h) == [k \in DOMAIN h.wraps |-> h.wraps[k].Middleware]

NoPipe == PipeResult(NewRecorder, <<>>, NoErr, 0, <<>>, 0, 0, <<>>, <<>>)

\* h.ServeHTTP(w, req) for a handler of the table: the group-level layers
\* around the endpoint's pipeline; params is the bag withPathParams attached.
withLayers(h, inner) ==
    [inner EXCEPT !.calls = Entering(LayerIds(h), "before") \o @
                               \o Leaving(LayerIds(h), "after")]

runEndpoint(h, w, r, params, hres) ==
    withLayers(h, IF h.inner.kind = "meta"
                  THEN adaptHandlerWithMeta(h.ep, h.inner, w, r, ctxPathParams(params), hres)
                  ELSE adaptHandler(h.ep, h.inner, w, r, hres))

\* fallback.ServeHTTP(w, req): the root's layers around the fallback handler,
\* which answers 418 as the one of the package's tests does.
runFallback(h, w) ==
    [NoPipe EXCEPT !.w = WriteHeader(w, StatusTeapot),
                   !.calls = Entering(LayerIds(h), "before") \o <<Event("fallback", 0)>>
                               \o Leaving(LayerIds(h), "after")]

methodNotAllowed(w, m) ==
    HttpError(IF m.allow # "" THEN SetHeader(w, "Allow", m.allow) ELSE w,
              "Method Not Allowed", StatusMethodNotAllowed)

\* The first pattern of patternRoutes[k..] that has methods and matches (0: none).
RECURSIVE firstMatch(_, _, _)
firstMatch(patternRoutes, requestPath, k) ==
    IF k > Len(patternRoutes) THEN 0
    ELSE IF ~patternRoutes[k].methods.isNil /\ match(patternRoutes[k], requestPath).ok
    THEN k
    ELSE firstMatch(patternRoutes, requestPath, k + 1)

\* withPathParams (handler.go): the request context afterwards; no bag is
\* attached when there are no params.
NoBag == [attached |-> FALSE, values |-> EmptyMap]

withPathParams(values) ==
    IF Cardinality(DOMAIN values) = 0 THEN NoBag
    ELSE [attached |-> TRUE, values |-> values]

\* The served request: route tells how it was resolved ("static", "pattern",
\* "fallback" or "none"), k which pattern matched; hres is what the user's
\* typed handler returns when it is invoked.
Response(r, hres, route, k, params, p) ==
    [served |-> TRUE, r |-> r, hres |-> hres, route |-> route, k |-> k, params |-> params,
     w |-> p.w, calls |-> p.calls, decodeErr |-> p.decodeErr, field |-> p.field,
     encodeErrorArgs |-> p.encodeErrorArgs, encodeCalls |-> p.encodeCalls,
     handlerCalls |-> p.handlerCalls, reqVal |-> p.reqVal, metaVal |-> p.metaVal]

\* The route the closure resolves a request path to: the static entry
\* (serve.go:236), else the first pattern that matches (serve.go:250-257).
NoRoute == [route |-> "none", k |-> 0, m |-> NilMethods, values |-> EmptyMap]

\* The last pattern of patternRoutes[1..k] that has methods and matches (0: none).
RECURSIVE lastMatch(_, _, _)
lastMatch(patternRoutes, requestPath, k) ==
    IF k = 0 THEN 0
    ELSE IF ~patternRoutes[k].methods.isNil /\ match(patternRoutes[k], requestPath).ok
    THEN k
    ELSE lastMatch(patternRoutes, requestPath, k - 1)

\* The pattern loop running to its end and keeping the last pattern that
\* matches.
patternRouteLast(t, requestPath, k) ==
    IF k = 0 THEN NoRoute
    ELSE [route |-> "pattern", k |-> lastMatch(t.patternRoutes, requestPath, Len(t.patternRoutes)),
          m |-> t.patternRoutes[lastMatch(t.patternRoutes, requestPath,
                                          Len(t.patternRoutes))].methods,
          values |-> match(t.patternRoutes[lastMatch(t.patternRoutes, requestPath,
                                                     Len(t.patternRoutes))],
                           requestPath).values]

patternRoute(t, requestPath, k) ==
    IF k = 0 THEN NoRoute
    ELSE [route |-> "pattern", k |-> k, m |-> t.patternRoutes[k].methods,
          values |-> match(t.patternRoutes[k], requestPath).values]

\* The lookup trying the patterns before the static table.
resolvePatternFirst(t, requestPath) ==
    IF firstMatch(t.patternRoutes, requestPath, 1) # 0
    THEN patternRoute(t, requestPath, firstMatch(t.patternRoutes, requestPath, 1))
    ELSE IF Has(t.staticRoutes, requestPath)
    THEN [route |-> "static", k |-> 0, m |-> t.staticRoutes[requestPath],
          values |-> EmptyMap]
    ELSE NoRoute

resolve(t, requestPath) ==
    IF Has(t.staticRoutes, requestPath)
    THEN [route |-> "static", k |-> 0, m |-> t.staticRoutes[requestPath],
          values |-> EmptyMap]
    ELSE patternRoute(t, requestPath, firstMatch(t.patternRoutes, requestPath, 1))

\* The request context the handler gets: withPathParams is applied on a
\* pattern route only (serve.go:266).
ctxOf(rt) == IF rt.route = "pattern" THEN withPathParams(rt.values) ELSE NoBag

\* The closure handing a request of an unregistered method to the fallback
\* like one of an unmatched path.
dispatchLenient(t, r, hres, w, rt) ==
    IF rt.route = "none" \/ ~Has(rt.m.byMethod, r.Method)
    THEN IF ~t.fallback.isNil
         THEN Response(r, hres, "fallback", 0, NoBag, runFallback(t.fallback, w))
         ELSE Response(r, hres, "none", 0, NoBag,
                       [NoPipe EXCEPT !.w = HttpError(w, "404 page not found", StatusNotFound)])
    ELSE Response(r, hres, rt.route, rt.k, ctxOf(rt),
                  runEndpoint(rt.m.byMethod[r.Method], w, r, ctxOf(rt), hres))

\* The closure once the route is resolved.
dispatch(t, r, hres, w, rt) ==
    IF rt.route = "none"
    THEN IF ~t.fallback.isNil
         THEN Response(r, hres, "fallback", 0, NoBag, runFallback(t.fallback, w))
         ELSE Response(r, hres, "none", 0, NoBag,
                       [NoPipe EXCEPT !.w = HttpError(w, "404 page not found", StatusNotFound)])
    ELSE IF ~Has(rt.m.byMethod, r.Method)
    THEN Response(r, hres, rt.route, rt.k, NoBag, [NoPipe EXCEPT !.w = methodNotAllowed(w, rt.m)])
    ELSE Response(r, hres, rt.route, rt.k, ctxOf(rt),
                  runEndpoint(rt.m.byMethod[r.Method], w, r, ctxOf(rt), hres))

\* The closure wrapped as a whole in the root's middlewares.
serveWrapped(t, r, hres) ==
    withLayers(applyMiddlewares(UserHandler, collectMiddlewares(groups, 1)),
               dispatch(t, r, hres, NewRecorder, resolve(t, normalizeRequestPath(r.Path))))

serve(t, r, hres) == dispatch(t, r, hres, NewRecorder, resolve(t, normalizeRequestPath(r.Path)))

NoBody == [kind |-> "nil", obj |-> <<>>]

Request(method, path, query, header, body) ==
    [Method |-> method, Path |-> path, Query |-> query, Header |-> header, Body |-> body]

NoResp == [Response(Request("", "", <<>>, <<>>, NoBody), [err |-> NoErr, encodable |-> TRUE],
                    "none", 0, NoBag, NoPipe)
             EXCEPT !.served = FALSE]

\* The status a client receives: 200 when the handler returned without
\* writing a status.
FinalStatus(w) == IF w.status = 0 THEN StatusOK ELSE w.status

(***************************************************************************)
(* The state machine.                                                      *)
(***************************************************************************)
Op(op, g, ok) == [op |-> op, g |-> g, ok |-> ok]

\* A request no goroutine serves yet.  bag and copy are the maps of the
\* heap that the request's context and the handler hold (0: none), k is the
\* pattern the request was resolved to, seen what PathParam returned.
IdleRequest ==
    [pc |-> "idle", r |-> Request("", "", <<>>, <<>>, NoBody), k |-> 0, bag |-> 0,
     copy |-> 0, seen |-> EmptyMap]

\* A RegisterHandler call in progress (reg: its arguments and the statement
\* it has reached), the Handler() calls in progress (build: the statement
\* each has reached and the table it built), the requests in progress on
\* the handler returned (serving: one per goroutine of the transport) and
\* the maps they have allocated (heap).
NoneRunning ==
    [reg |-> [pc |-> "idle", eg |-> 0, method |-> "", path |-> ""],
     build |-> <<[pc |-> "idle", table |-> NotBuilt], [pc |-> "idle", table |-> NotBuilt]>>,
     serving |-> <<IdleRequest, IdleRequest>>,
     heap |-> <<>>]

\* New() (router.go).  groups[1] is the root; its Handlers and Metas lists
\* are the variables Handlers and Metas, and the Handlers and Metas fields
\* of a group record are the lists of a group that is not the root.
Init ==
    /\ groups = <<[Prefix |-> "", given |-> "", parent |-> 0, root |-> 1,
                    Middlewares |-> <<>>,
                    Handlers |-> <<>>, Metas |-> <<>>]>>
    /\ Handlers = <<>>
    /\ Metas = <<>>
    /\ sealed = FALSE
    /\ fallback = NilHandler
    /\ built = NotBuilt
    /\ resp = NoResp
    /\ lastOp = Op("New", 1, TRUE)
    /\ running = NoneRunning

\* The number of middlewares registered so far, on all groups.
RECURSIVE CountMw(_, _)
CountMw(gs, g) == IF g = 0 THEN 0 ELSE Len(gs[g].Middlewares) + CountMw(gs, g - 1)

\* eg.Group(prefix) (endpoint.go).  given records the prefix passed to the
\* call.
Group(eg, prefix) ==
    /\ groups' = Append(groups, [Prefix |-> groups[eg].Prefix \o prefix, given |-> prefix,
                                 parent |-> eg, root |-> groups[eg].root,
                                 Middlewares |-> <<>>,
                                 Handlers |-> <<>>, Metas |-> <<>>])
    /\ lastOp' = Op("Group", Len(groups) + 1, TRUE)
    /\ UNCHANGED <<Handlers, Metas, sealed, fallback, built, resp, running>>

\* eg.Use(middleware, Priority(priority)): the middleware gets the number of
\* its Use call as its identity.
Use(eg, priority) ==
    /\ CountMw(groups, Len(groups)) < MaxMiddlewares
    /\ groups' = [groups EXCEPT ![eg].Middlewares =
                      Append(@, [Middleware |-> CountMw(groups, Len(groups)) + 1,
                                 Priority |-> priority])]
    /\ lastOp' = Op("Use", eg, TRUE)
    /\ UNCHANGED <<Handlers, Metas, sealed, fallback, built, resp, running>>

\* The typed middlewares wrapped from the first listed to the last, nil
\* entries skipped; innermost first.
RECURSIVE typedChainForward(_, _)
typedChainForward(mws, i) ==
    IF i < 1 THEN <<>>
    ELSE IF mws[i] = 0 THEN typedChainForward(mws, i - 1)
    ELSE typedChainForward(mws, i - 1) \o <<mws[i]>>

\* The typed middleware loop of RegisterHandler: wrapping from the last
\* listed to the first, nil entries (0) skipped; innermost first.
RECURSIVE typedChain(_, _)
typedChain(mws, i) ==
    IF i < 1 THEN <<>>
    ELSE IF mws[i] = 0 THEN typedChain(mws, i - 1)
    ELSE <<mws[i]>> \o typedChain(mws, i - 1)

Consumes(codec) == IF codec.kind = "default" THEN <<"application/json">> ELSE <<>>

\* The group an endpoint of group eg is appended to, were every group taken
\* for its own root.
rootOfSelf(eg) == eg

\* "root := eg.root; if root == nil { root = eg }"
rootOf(eg) == IF groups[eg].root = 0 THEN eg ELSE groups[eg].root

\* root.sealed: Router.buildHandler seals the root of the router only.
rootSealed(eg) == rootOf(eg) = 1 /\ sealed

\* The endpoint e and its EndpointMeta em are appended to the Handlers and
\* Metas of the group root.
appendTo(root, eg, e, em, op) ==
    /\ IF root = 1
       THEN /\ Len(Handlers) < MaxEndpoints
            /\ Handlers' = Append(Handlers, e)
            /\ Metas' = Append(Metas, em)
            /\ UNCHANGED groups
       ELSE /\ Len(groups[root].Handlers) < MaxEndpoints
            /\ groups' = [groups EXCEPT ![root].Handlers = Append(@, e),
                                        ![root].Metas = Append(@, em)]
            /\ UNCHANGED <<Handlers, Metas>>
    /\ lastOp' = Op(op, eg, TRUE)
    /\ UNCHANGED <<sealed, fallback, built, resp, running>>

\* endpoint.go:239-282: the endpoint and its EndpointMeta are appended to the
\* root's Handlers and Metas.  opts and inPath record the typed middlewares
\* as the options listed them (o.middlewares) and the path as given
\* (in.Path); the endpoint struct keeps only the handler and the full path.
newEndpoint(eg, method, path, codec, mws, req) ==
    [Path |-> groups[eg].Prefix \o path, Method |-> method, Group |-> eg,
     opts |-> mws, inPath |-> path,
     Handler |-> [kind |-> "plain", codec |-> codec, Req |-> req, Meta |-> "",
                  typed |-> typedChain(mws, Len(mws))]]

newMeta(eg, method, path, codec, req) ==
    [Method |-> method, Path |-> groups[eg].Prefix \o path, Req |-> req,
     Meta |-> "", Consumes |-> Consumes(codec), Produces |-> Consumes(codec)]

appendEndpoint(eg, method, path, codec, mws, req) ==
    appendTo(rootOf(eg), eg, newEndpoint(eg, method, path, codec, mws, req),
             newMeta(eg, method, path, codec, req), "RegisterHandler")

\* RegisterHandler without the check of root.sealed.
RegisterHandlerUnsealed(eg, method, path, codec, mws, req) ==
    appendEndpoint(eg, method, path, codec, mws, req)

\* RegisterHandler(eg, in, opts...) (endpoint.go); in = {method, path}, opts
\* give the codec and the typed middlewares.
RegisterHandler(eg, method, path, codec, mws, req) ==
    IF rootSealed(eg)
    THEN /\ lastOp' = Op("RegisterHandler", eg, FALSE)
         /\ UNCHANGED <<groups, Handlers, Metas, sealed, fallback, built, resp, running>>
    ELSE appendEndpoint(eg, method, path, codec, mws, req)

\* RegisterHandlerM(eg, in, opts...) (endpoint.go)
RegisterHandlerM(eg, method, path, codec, mws, req, meta) ==
    IF rootSealed(eg) \/ GoType(meta).kind # "struct"
       \/ validateMetaType(meta, groups[eg].Prefix \o path) # NoErr
    THEN /\ lastOp' = Op("RegisterHandlerM", eg, FALSE)
         /\ UNCHANGED <<groups, Handlers, Metas, sealed, fallback, built, resp, running>>
    ELSE appendTo(rootOf(eg), eg,
                  [Path |-> groups[eg].Prefix \o path, Method |-> method, Group |-> eg,
                   opts |-> mws, inPath |-> path,
                   Handler |-> [kind |-> "meta", codec |-> codec, Req |-> req,
                                Meta |-> meta, typed |-> typedChain(mws, Len(mws))]],
                  [Method |-> method, Path |-> groups[eg].Prefix \o path, Req |-> req,
                   Meta |-> meta, Consumes |-> Consumes(codec),
                   Produces |-> Consumes(codec)],
                  "RegisterHandlerM")

\* r.SetFallback(h) (router.go)
SetFallback ==
    /\ fallback' = UserHandler
    /\ lastOp' = Op("SetFallback", 1, TRUE)
    /\ UNCHANGED <<groups, Handlers, Metas, sealed, built, resp, running>>

\* A Handler() call that seals the root only when the build succeeds.
HandlerSealingOnSuccess ==
    /\ built' = buildTable(groups, Handlers, fallback)
    /\ sealed' = (sealed \/ built'.err = "")
    /\ lastOp' = Op("Handler", 1, built'.err = "")
    /\ UNCHANGED <<groups, Handlers, Metas, fallback, resp, running>>

\* r.Handler() / r.HandlerMust() (router.go): Router.buildHandler seals the
\* root, then builds the table.
Handler ==
    /\ sealed' = TRUE
    /\ built' = buildTable(groups, Handlers, fallback)
    /\ lastOp' = Op("Handler", 1, built'.err = "")
    /\ UNCHANGED <<groups, Handlers, Metas, fallback, resp, running>>

\* h.ServeHTTP(w, r) on the handler the last Handler() call returned
ServeHTTP(r, hres) ==
    /\ built.called
    /\ ~built.isNil
    /\ resp' = serve(built, r, hres)
    /\ lastOp' = Op("ServeHTTP", 1, TRUE)
    /\ UNCHANGED <<groups, Handlers, Metas, sealed, fallback, built, running>>

(***************************************************************************)
(* RegisterHandler and Handler() called from different goroutines.  Neither *)
(* takes a lock (the only mutex of the Router, tsGenMu, guards the         *)
(* TypeScript generation), so each call is a sequence of steps, one for    *)
(* each access to root.sealed and root.Handlers, and the steps of the      *)
(* calls interleave.                                                       *)
(***************************************************************************)
\* endpoint.go:226-233: a RegisterHandler call begins on its goroutine and
\* reads root.sealed.
RegisterCall(eg, method, path) ==
    /\ running.reg.pc = "idle"
    /\ Len(Handlers) < MaxEndpoints
    /\ running' = [running EXCEPT !.reg = [pc |-> IF rootSealed(eg) THEN "rejected"
                                                  ELSE "checked",
                                           eg |-> eg, method |-> method, path |-> path]]
    /\ lastOp' = IF rootSealed(eg) THEN Op("RegisterHandler", eg, FALSE) ELSE lastOp
    /\ UNCHANGED <<groups, Handlers, Metas, sealed, fallback, built, resp>>

\* endpoint.go:234-237: the second read of root.sealed.
RegisterRecheck ==
    /\ running.reg.pc = "checked"
    /\ running' = [running EXCEPT !.reg.pc = IF rootSealed(running.reg.eg) THEN "rejected"
                                             ELSE "appending"]
    /\ lastOp' = IF rootSealed(running.reg.eg)
                 THEN Op("RegisterHandler", running.reg.eg, FALSE) ELSE lastOp
    /\ UNCHANGED <<groups, Handlers, Metas, sealed, fallback, built, resp>>

\* The endpoint and the metadata record of the call in progress.
runningEndpoint ==
    newEndpoint(running.reg.eg, running.reg.method, running.reg.path, DefaultCodec,
                <<>>, "struct{}")

runningMeta ==
    newMeta(running.reg.eg, running.reg.method, running.reg.path, DefaultCodec, "struct{}")

\* endpoint.go:258-282: the writes of root.Handlers and root.Metas.
RegisterAppend ==
    /\ running.reg.pc = "appending"
    /\ Handlers' = Append(Handlers, runningEndpoint)
    /\ Metas' = Append(Metas, runningMeta)
    /\ running' = [running EXCEPT !.reg.pc = "appended"]
    /\ lastOp' = Op("RegisterHandler", running.reg.eg, TRUE)
    /\ UNCHANGED <<groups, sealed, fallback, built, resp>>

\* serve.go:148-154: a Handler() call begins on goroutine b and writes
\* root.sealed.
HandlerSeal(b) ==
    /\ running.build[b].pc = "idle"
    /\ sealed' = TRUE
    /\ running' = [running EXCEPT !.build[b].pc = "sealed"]
    /\ UNCHANGED <<groups, Handlers, Metas, fallback, built, resp, lastOp>>

\* What "range r.Handlers" can read while the append of another goroutine is
\* under way: the slice of before the append or the slice of after it.
HandlersSeen ==
    IF running.reg.pc = "appending"
    THEN {Handlers, Append(Handlers, runningEndpoint)}
    ELSE {Handlers}

\* serve.go:156-233: the call of goroutine b reads r.Handlers once (the range
\* expression), builds the table from what it read and returns it.
HandlerRange(b) ==
    /\ running.build[b].pc = "sealed"
    /\ \E hs \in HandlersSeen :
          /\ built' = buildTable(groups, hs, fallback)
          /\ running' = [running EXCEPT !.build[b] = [pc |-> "returned", table |-> built']]
          /\ lastOp' = Op("Handler", 1, built'.err = "")
    /\ UNCHANGED <<groups, Handlers, Metas, sealed, fallback, resp>>

\* The read of the slice header of r.Handlers is torn by the append under
\* way: the loop runs over memory that is no endpoint and the goroutine
\* panics.
HandlerPanic(b) ==
    /\ running.build[b].pc = "sealed"
    /\ running.reg.pc = "appending"
    /\ running' = [running EXCEPT !.build[b].pc = "panicked"]
    /\ UNCHANGED <<groups, Handlers, Metas, sealed, fallback, built, resp, lastOp>>

(***************************************************************************)
(* Requests served concurrently by one handler: net/http calls the closure *)
(* on a goroutine per request.  Each call is a sequence of steps: the      *)
(* resolution, which allocates the values map of the match, the handler's  *)
(* PathParams call, the handler's write to the map it got, its PathParam   *)
(* call, and the response.                                                 *)
(***************************************************************************)
\* The closure hands the handler a request whose context holds a bag: the
\* route is a pattern that has the method and the match has values.
bagAttached(rt, r) ==
    /\ rt.route = "pattern"
    /\ Has(rt.m.byMethod, r.Method)
    /\ withPathParams(rt.values).attached

\* serve.go:234-266 on goroutine q: the table is read, and the values map
\* that match made for this request is attached to its context.
servingMatched(q, r, rt) ==
    [running EXCEPT
        !.serving[q] = [IdleRequest EXCEPT
                           !.pc = IF rt.route # "none" /\ Has(rt.m.byMethod, r.Method)
                                  THEN "handling" ELSE "answered",
                           !.r = r, !.k = rt.k,
                           !.bag = IF bagAttached(rt, r) THEN Len(running.heap) + 1 ELSE 0],
        !.heap = IF bagAttached(rt, r) THEN Append(@, rt.values) ELSE @]

ServeMatch(q, r) ==
    /\ built.called
    /\ ~built.isNil
    /\ running.serving[q].pc = "idle"
    /\ running' = servingMatched(q, r, resolve(built, normalizeRequestPath(r.Path)))
    /\ UNCHANGED <<groups, Handlers, Metas, sealed, fallback, built, resp, lastOp>>

\* PathParams handing out the map of the context itself.
pathParamsAliased(heap, bag) == [heap |-> heap, ref |-> bag]

\* PathParams(ctx) (handler.go:27-38): nil without values, else a new map
\* with the entries of the bag.
PathParams(heap, bag) ==
    IF bag = 0 THEN [heap |-> heap, ref |-> 0]
    ELSE [heap |-> Append(heap, heap[bag]), ref |-> Len(heap) + 1]

\* The handler of request q calls PathParams(ctx).
HandlerPathParams(q) ==
    /\ running.serving[q].pc = "handling"
    /\ running' = [running EXCEPT
                      !.heap = PathParams(running.heap, running.serving[q].bag).heap,
                      !.serving[q].copy = PathParams(running.heap, running.serving[q].bag).ref,
                      !.serving[q].pc = "copied"]
    /\ UNCHANGED <<groups, Handlers, Metas, sealed, fallback, built, resp, lastOp>>

\* The handler of request q writes to the map PathParams returned (writing
\* to the nil map is not modelled: the handler checks for it).
HandlerMutate(q) ==
    /\ running.serving[q].pc = "copied"
    /\ running' = [running EXCEPT
                      !.heap = IF running.serving[q].copy = 0 THEN @
                               ELSE [@ EXCEPT ![running.serving[q].copy] =
                                         [n \in DOMAIN @ |-> "mutated"]],
                      !.serving[q].pc = "mutated"]
    /\ UNCHANGED <<groups, Handlers, Metas, sealed, fallback, built, resp, lastOp>>

\* PathParam(ctx, name) (handler.go:17-25) for every name, called by the
\* handler of request q (or by a reader that shares its context).
HandlerPathParam(q) ==
    /\ running.serving[q].pc = "mutated"
    /\ running' = [running EXCEPT
                      !.serving[q].seen = IF running.serving[q].bag = 0 THEN EmptyMap
                                          ELSE running.heap[running.serving[q].bag],
                      !.serving[q].pc = "read"]
    /\ UNCHANGED <<groups, Handlers, Metas, sealed, fallback, built, resp, lastOp>>

\* The response of request q is complete.
ServeAnswer(q, hres) ==
    /\ running.serving[q].pc \in {"read", "answered"}
    /\ resp' = serve(built, running.serving[q].r, hres)
    /\ running' = [running EXCEPT !.serving[q].pc = "done"]
    /\ lastOp' = Op("ServeHTTP", 1, TRUE)
    /\ UNCHANGED <<groups, Handlers, Metas, sealed, fallback, built>>

\* The handler dispatching on the table of the latest Handler() call.
latestTable(b) == built

\* What the handler that call b of Handler() returned dispatches on: the
\* staticRoutes, patternRoutes and fallback variables its closure captured
\* (serve.go:156-233), whatever the router holds now.
returnedTable(b) == running.build[b].table

\* h.ServeHTTP(w, r) on the handler that call b of Handler() returned, kept
\* by its caller.
ServeReturned(b, r, hres) ==
    /\ running.build[b].pc = "returned"
    /\ ~returnedTable(b).isNil
    /\ resp' = serve(returnedTable(b), r, hres)
    /\ lastOp' = Op("ServeHTTP", 1, TRUE)
    /\ UNCHANGED <<groups, Handlers, Metas, sealed, fallback, built, running>>

(***************************************************************************)
(* Inputs.                                                                 *)
(***************************************************************************)
\* What the user's typed handler returns: an error or a response value.
OkResult == [err |-> NoErr, encodable |-> TRUE]

Get(path) == Request("GET", path, <<>>, <<>>, NoBody)

\* Routing: methods and paths registered on the root and on a subgroup
\* "/u", and the requests sent.
Routes(eg) ==
    IF eg = 1
    THEN {<<"GET", "/a">>, <<"GET", "/a/">>, <<"POST", "/a">>,
          <<"GET", "/u/:x">>, <<"GET", "/u/:y">>}
    ELSE {<<"GET", "/:x">>}

RouteRequests ==
    {Request(m, p, <<>>, <<>>, NoBody) : m \in {"GET", "DELETE"},
                                         p \in {"/a/", "/u/7"}}

NextRoute ==
    \/ \E eg \in 1..Len(groups) : Len(groups) < MaxGroups /\ Group(eg, "/u")
    \/ \E eg \in 1..Len(groups) : \E in \in Routes(eg) :
          RegisterHandler(eg, in[1], in[2], DefaultCodec, <<>>, "struct{}")
    \/ Handler
    \/ \E r \in RouteRequests : ServeHTTP(r, OkResult)

SpecRoute == Init /\ [][NextRoute]_vars

(***************************************************************************)
(* Route conflicts.  The conflicts are stated on root.Handlers, apart from *)
(* the table builder.                                                      *)
(***************************************************************************)
\* Every registered path is syntactically valid.
ValidPaths == \A i \in DOMAIN Handlers : parseRoutePattern(Handlers[i].Path).err = ""

\* Registrations i < j of the same method and the same normalized path.
DuplicatePair(i, j) ==
    /\ i < j
    /\ Handlers[i].Method = Handlers[j].Method
    /\ normalizeRoutePath(Handlers[i].Path) = normalizeRoutePath(Handlers[j].Path)

\* Registrations i < j of parameterized paths of the same canonical shape
\* with different parameter names.
AmbiguousPair(i, j) ==
    /\ i < j
    /\ Len(parseRoutePattern(Handlers[i].Path).params) > 0
    /\ parseRoutePattern(Handlers[i].Path).shape = parseRoutePattern(Handlers[j].Path).shape
    /\ parseRoutePattern(Handlers[i].Path).params # parseRoutePattern(Handlers[j].Path).params

HasDuplicate == \E i, j \in DOMAIN Handlers : DuplicatePair(i, j)

HasAmbiguous == \E i, j \in DOMAIN Handlers : AmbiguousPair(i, j)

\* A duplicate is completed (by its second registration) before any
\* ambiguous pair is.
DuplicateFirst ==
    \E i, j \in DOMAIN Handlers :
        /\ DuplicatePair(i, j)
        /\ \A k, l \in DOMAIN Handlers : AmbiguousPair(k, l) => l > j

\* An ambiguous pair is completed before any duplicate is.
AmbiguousFirst ==
    \E i, j \in DOMAIN Handlers :
        /\ AmbiguousPair(i, j)
        /\ \A k, l \in DOMAIN Handlers : DuplicatePair(k, l) => l > j

\* C1 as stated: whenever the same method and normalized path are registered
\* twice (all paths valid), Handler() returns a duplicate-route error and no
\* handler.
C1_AsStated ==
    (built.called /\ ValidPaths /\ HasDuplicate)
        => (built.isNil /\ HasPrefix(built.err, "duplicate route: "))

\* C1: whenever the same method and normalized path are registered twice (all
\* paths valid), Handler() returns an error and no handler, so that neither
\* registration is in a dispatch table; the error is the duplicate-route
\* error when the duplicate is completed before any ambiguous pair of
\* patterns, and the ambiguous-route error otherwise.
C1_DuplicateRejected ==
    (built.called /\ ValidPaths /\ HasDuplicate)
        => /\ built.isNil
           /\ built.err # ""
           /\ IF DuplicateFirst THEN HasPrefix(built.err, "duplicate route: ")
              ELSE HasPrefix(built.err, "ambiguous route: ")

\* Handler() was called on a router with GET /u/:x registered twice, on the
\* root and through the subgroup "/u", and it reported the duplicate.
C1_Witness ==
    /\ built.called
    /\ built.isNil
    /\ \E i, j \in DOMAIN Handlers :
          /\ DuplicatePair(i, j)
          /\ Handlers[i].Group # Handlers[j].Group
          /\ Len(parseRoutePattern(Handlers[i].Path).params) > 0
    /\ built.err = "duplicate route: GET /u/:x"

\* C2 as stated: whenever two registered parameterized paths have the same
\* shape and different parameter names, Handler() fails with an
\* ambiguous-route error and returns no handler.
C2_AsStated ==
    (built.called /\ ValidPaths /\ HasAmbiguous)
        => (built.isNil /\ HasPrefix(built.err, "ambiguous route: "))

\* C2: whenever two registered parameterized paths have the same shape and
\* different parameter names, whatever their methods, Handler() returns an
\* error and no handler; the error is the ambiguous-route error when the
\* ambiguous pair is completed before any duplicate registration, and the
\* duplicate-route error otherwise.
C2_AmbiguousRejected ==
    (built.called /\ ValidPaths /\ HasAmbiguous)
        => /\ built.isNil
           /\ built.err # ""
           /\ IF AmbiguousFirst THEN HasPrefix(built.err, "ambiguous route: ")
              ELSE HasPrefix(built.err, "duplicate route: ")

\* Handler() was called with /u/:x and /u/:y registered, and reported the
\* ambiguity.
C2_Witness ==
    /\ built.called
    /\ built.isNil
    /\ \E i, j \in DOMAIN Handlers : AmbiguousPair(i, j)
    /\ built.err \in {"ambiguous route: /u/:y conflicts with /u/:x",
                      "ambiguous route: /u/:x conflicts with /u/:y"}

(***************************************************************************)
(* Method not allowed.                                                     *)
(***************************************************************************)
\* The endpoints whose route the request path matches.
Matching(r) ==
    {i \in DOMAIN Handlers :
        match(parseRoutePattern(Handlers[i].Path), normalizeRequestPath(r.Path)).ok}

MethodsFor(r) == {Handlers[i].Method : i \in Matching(r)}

\* allow lists exactly the methods of M, each once, in ascending order,
\* joined by ", ".
ListsAscending(allow, M) ==
    \E ms \in [1..Cardinality(M) -> M] :
        /\ \A i \in 1..(Cardinality(M) - 1) : StrLess(ms[i], ms[i + 1])
        /\ allow = Join(ms, ", ")

\* C5: a request whose path matches a registered route and whose method is
\* not registered for it gets 405, no middleware or endpoint handler runs,
\* and the Allow header lists exactly the methods registered for the path,
\* each once, ascending, joined by ", ".
C5_MethodNotAllowed ==
    (resp.served /\ Matching(resp.r) # {} /\ resp.r.Method \notin MethodsFor(resp.r))
        => /\ resp.w.status = StatusMethodNotAllowed
           /\ resp.handlerCalls = 0
           /\ resp.calls = <<>>
           /\ Has(resp.w.header, "Allow")
           /\ ListsAscending(resp.w.header["Allow"], MethodsFor(resp.r))

\* DELETE /a/ was answered by a router on which POST /a was registered
\* before GET /a: the Allow header is "GET, POST".
C5_Witness ==
    /\ resp.served
    /\ resp.r.Method = "DELETE"
    /\ resp.w.status = StatusMethodNotAllowed
    /\ \E i, j \in DOMAIN Handlers :
          /\ i < j
          /\ Handlers[i].Method = "POST" /\ Handlers[j].Method = "GET"
          /\ i \in Matching(resp.r) /\ j \in Matching(resp.r)
    /\ resp.w.header["Allow"] = "GET, POST"

(***************************************************************************)
(* Sealing: registrations on the root and on subgroups "/g", before and    *)
(* after Handler(), with and without a fallback.                           *)
(***************************************************************************)
SealRequests == {Get("/g/a"), Get("/u/7")}

NextSeal ==
    \/ \E eg \in 1..Len(groups) : Len(groups) < MaxGroups /\ Group(eg, "/g")
    \/ \E eg \in 1..Len(groups) :
          RegisterHandler(eg, "GET", "/a", DefaultCodec, <<>>, "struct{}")
    \/ \E eg \in 1..Len(groups) :
          RegisterHandlerM(eg, "GET", "/u/:id", DefaultCodec, <<>>, "struct{}", "nameMeta")
    \/ SetFallback
    \/ Handler
    \/ \E r \in SealRequests : ServeHTTP(r, OkResult)

SpecSeal == Init /\ [][NextSeal]_vars

\* A request served after Handler() whose path matches no registered route
\* gets the fallback the build captured, else 404; no endpoint handler runs.
LateNotFound ==
    (sealed /\ resp.served /\ Matching(resp.r) = {})
        => /\ resp.route \in {"none", "fallback"}
           /\ resp.handlerCalls = 0
           /\ FinalStatus(resp.w) =
                  IF resp.route = "fallback" THEN StatusTeapot ELSE StatusNotFound

\* C4: once Handler() has been called, a RegisterHandler or RegisterHandlerM
\* call on the root or on a subgroup is rejected: it leaves root.Handlers and
\* root.Metas as they are, and the handler already returned (the table its
\* closure captured, which is all its answers depend on) is the same; a
\* request to a path whose registration came too late gets not-found or the
\* fallback.
C4_SealedRejects ==
    /\ [][(sealed /\ lastOp'.op \in {"RegisterHandler", "RegisterHandlerM"})
             => /\ ~lastOp'.ok
                /\ Handlers' = Handlers
                /\ Metas' = Metas
                /\ built' = built]_vars
    /\ []LateNotFound

\* GET /g/a was answered 404 by the handler Handler() had returned for a
\* router that has endpoints but not that one; then RegisterHandler of
\* GET /g/a on the subgroup was rejected, and the handler still answers 404.
C4_Witness ==
    /\ sealed
    /\ ~built.isNil
    /\ Len(Handlers) > 0
    /\ \A i \in DOMAIN Handlers : Handlers[i].Path # "/g/a"
    /\ lastOp = Op("RegisterHandler", 2, FALSE)
    /\ resp.served
    /\ resp.r = Get("/g/a")
    /\ FinalStatus(resp.w) = StatusNotFound
    /\ serve(built, Get("/g/a"), OkResult) = resp

(***************************************************************************)
(* Middleware order: middlewares of priority 0 or 10 on the root and on    *)
(* subgroups "/g", all registered before Handler(), and one endpoint.      *)
(***************************************************************************)
Priorities == {0, 10}

MwRequests == {Get("/a"), Get("/g/a"), Get("/g/g/a")}

NextMw ==
    \/ \E eg \in 1..Len(groups) : ~sealed /\ Len(groups) < MaxGroups /\ Group(eg, "/g")
    \/ \E eg \in 1..Len(groups) : \E priority \in Priorities : ~sealed /\ Use(eg, priority)
    \/ \E eg \in 1..Len(groups) :
          /\ Handlers = <<>>
          /\ RegisterHandler(eg, "GET", "/a", DefaultCodec, <<>>, "struct{}")
    \/ Handler
    \/ \E r \in MwRequests : ServeHTTP(r, OkResult)

SpecMw == Init /\ [][NextMw]_vars

\* The groups on the chain from group g up to the root.
RECURSIVE Chain(_)
Chain(g) == IF g = 0 THEN {} ELSE {g} \cup Chain(groups[g].parent)

\* The number of groups between group g and the root.
RECURSIVE Depth(_)
Depth(g) == IF groups[g].parent = 0 THEN 0 ELSE 1 + Depth(groups[g].parent)

\* The middlewares registered on a group and on the groups of a set (their
\* identities), and the group and the priority of each.
MwOn(g) == {groups[g].Middlewares[k].Middleware : k \in DOMAIN groups[g].Middlewares}

IdsOn(gset) == UNION {MwOn(g) : g \in gset}

GroupOf(id) == CHOOSE g \in DOMAIN groups : id \in MwOn(g)

PriorityOf(id) ==
    LET g == GroupOf(id)
        k == CHOOSE k \in DOMAIN groups[g].Middlewares : groups[g].Middlewares[k].Middleware = id
    IN groups[g].Middlewares[k].Priority

Entered == {resp.calls[k].id : k \in {k \in DOMAIN resp.calls : resp.calls[k].ev = "before"}}

\* The endpoints whose typed handler ran while the request was served.
Ran == {resp.calls[k].id : k \in {k \in DOMAIN resp.calls : resp.calls[k].ev = "handler"}}

\* The position at which middleware id is entered and the one at which it
\* is left, in the calls of the request served.
EnteredAt(id) == CHOOSE k \in DOMAIN resp.calls : resp.calls[k] = Event("before", id)

LeftAt(id) == CHOOSE k \in DOMAIN resp.calls : resp.calls[k] = Event("after", id)

\* The pairs of middlewares of equal priority that ran for the request
\* served; a has the later Use call.
EqualPairs ==
    {p \in Entered \X Entered :
        p[1] > p[2] /\ PriorityOf(p[1]) = PriorityOf(p[2])}

BadRequest == BaseErr("bad request")

PipeEndpoint(method, path, codec, req, meta) ==
    [method |-> method, path |-> path, codec |-> codec, req |-> req, meta |-> meta]

\* The endpoints an application registers, in this order; meta = "" for a
\* plain endpoint (RegisterHandler).
PipeEndpoints ==
    <<PipeEndpoint("GET", "/n", DefaultCodec, "nameReq", ""),
      PipeEndpoint("POST", "/t", TestCodec(BadRequest, FALSE), "struct{}", ""),
      PipeEndpoint("GET", "/users/:id", DefaultCodec, "userReq", "userMeta"),
      PipeEndpoint("GET", "/me", DefaultCodec, "nameReq", "authMeta"),
      PipeEndpoint("GET", "/opt", DefaultCodec, "struct{}", "optMeta"),
      PipeEndpoint("GET", "/at/:id", DefaultCodec, "struct{}", "sinceMeta"),
      PipeEndpoint("POST", "/tm", TestCodec(BadRequest, FALSE), "struct{}", "optMeta")>>

\* Endpoint k of the list comes after every endpoint registered so far.
Later(k) == \A i \in DOMAIN Handlers : \E j \in 1..(k - 1) : PipeEndpoints[j].path = Handlers[i].Path

Query(name, value) == [n \in {name} |-> <<value>>]

EmptyBody == [kind |-> "empty", obj |-> <<>>]

MalformedBody == [kind |-> "malformed", obj |-> <<>>]

PipeRequests ==
    {Request("GET", "/n", <<>>, <<>>, NoBody),
     Request("GET", "/n", <<>>, <<>>, EmptyBody),
     Request("GET", "/n", <<>>, <<>>, MalformedBody),
     Request("GET", "/n", Query("name", "bob"), <<>>, NoBody),
     Request("POST", "/t", <<>>, <<>>, EmptyBody),
     Request("GET", "/users/42", <<>>, <<>>, EmptyBody),
     Request("GET", "/users/42", Query("id", "5"), <<>>, EmptyBody),
     Request("GET", "/me", <<>>, <<>>, EmptyBody),
     Request("GET", "/me", <<>>, [n \in {"Authorization"} |-> <<"Bearer token">>], EmptyBody),
     Request("GET", "/opt", <<>>, <<>>, EmptyBody),
     Request("GET", "/at/2024-01-02T03:04:05Z", <<>>, <<>>, EmptyBody),
     Request("POST", "/tm", <<>>, <<>>, EmptyBody)}

NextPipe ==
    \/ \E k \in DOMAIN PipeEndpoints :
          /\ Later(k)
          /\ PipeEndpoints[k].meta = ""
          /\ RegisterHandler(1, PipeEndpoints[k].method, PipeEndpoints[k].path,
                             PipeEndpoints[k].codec, <<>>, PipeEndpoints[k].req)
    \/ \E k \in DOMAIN PipeEndpoints :
          /\ Later(k)
          /\ PipeEndpoints[k].meta # ""
          /\ RegisterHandlerM(1, PipeEndpoints[k].method, PipeEndpoints[k].path,
                              PipeEndpoints[k].codec, <<>>, PipeEndpoints[k].req,
                              PipeEndpoints[k].meta)
    \/ Handler
    \/ \E r \in PipeRequests : ServeHTTP(r, OkResult)

SpecPipe == Init /\ [][NextPipe]_vars

\* The endpoints registered for the method and the path of a request.
EndpointsFor(r) == {i \in Matching(r) : Handlers[i].Method = r.Method}

\* What the endpoint's codec makes of the request.
RequestDecode(i, r) ==
    codecDecode(Handlers[i].Handler.codec, Handlers[i].Handler.Req, r)

\* The error of the decoding for endpoint i: of the request value, else of
\* the metadata of a meta-aware endpoint; params is the request's bag.
DecodeFailure(i, r, params) ==
    IF RequestDecode(i, r).err # NoErr THEN RequestDecode(i, r).err
    ELSE IF Handlers[i].Handler.kind = "meta"
    THEN decodeRequestMeta(Handlers[i].Handler.Meta, params, r.Header).err
    ELSE NoErr

\* C6: in both pipelines, when the decoding of the request (its value or its
\* metadata) fails, the typed handler is not invoked, no typed middleware
\* runs, EncodeError is called exactly once, with a StatusError of status
\* 400 around the decode error, and Encode is not called.
C6_DecodeFailureStops ==
    \A i \in EndpointsFor(resp.r) :
        (resp.served /\ DecodeFailure(i, resp.r, ctxPathParams(resp.params)) # NoErr)
        => /\ resp.handlerCalls = 0
           /\ \A k \in DOMAIN resp.calls : resp.calls[k].ev \notin {"handler", "typed-before"}
           /\ resp.encodeErrorArgs =
                  <<StatusError(StatusBadRequest,
                                DecodeFailure(i, resp.r, ctxPathParams(resp.params)))>>
           /\ resp.encodeCalls = 0

\* The plain pipeline of the package's test: the codec's decoder fails with
\* "bad request", EncodeError answered 400 and the handler did not run.
C6_Witness ==
    /\ resp.served
    /\ resp.r = Request("POST", "/t", <<>>, <<>>, EmptyBody)
    /\ resp.encodeErrorArgs = <<StatusError(StatusBadRequest, BadRequest)>>
    /\ resp.handlerCalls = 0
    /\ resp.encodeCalls = 0
    /\ FinalStatus(resp.w) = StatusBadRequest

\* The header tag of field k of a meta type.
HeaderTag(meta, k) == parseMetaTag(GoType(meta).fields[k].header, "header", FALSE)

\* Field k of the meta type is header-tagged and the request has no value
\* for its header.
HeaderAbsent(meta, k, r) ==
    /\ HeaderTag(meta, k).found
    /\ ~HeaderTag(meta, k).skip
    /\ headerValues(r.Header, HeaderTag(meta, k).name) = <<>>

\* C7: for a meta-aware endpoint (with the default codec or the test codec
\* of the package), a header-tagged field without omitempty whose header is
\* absent makes the response 400 and the handler is not invoked; a
\* header-tagged omitempty field whose header is absent never fails the
\* decoding, and when nothing else fails the handler is invoked with that
\* field at its zero value.
C7_HeaderPresence ==
    \A i \in EndpointsFor(resp.r) :
        (resp.served /\ Handlers[i].Handler.kind = "meta")
        => \A k \in DOMAIN GoType(Handlers[i].Handler.Meta).fields :
               HeaderAbsent(Handlers[i].Handler.Meta, k, resp.r)
               => IF HeaderTag(Handlers[i].Handler.Meta, k).omitempty
                  THEN /\ ~(resp.decodeErr # NoErr /\ resp.field = k)
                       /\ resp.decodeErr = NoErr
                          => /\ resp.handlerCalls = 1
                             /\ resp.metaVal[GoType(Handlers[i].Handler.Meta).fields[k].Name]
                                    = ZeroVal
                  ELSE /\ FinalStatus(resp.w) = StatusBadRequest
                       /\ resp.handlerCalls = 0

\* A request without headers to the endpoint whose only meta field is an
\* omitempty header was answered by the handler, and the same table answers
\* 400 without the handler to a request that lacks the required header.
C7_Witness ==
    /\ resp.served
    /\ resp.r = Request("GET", "/opt", <<>>, <<>>, EmptyBody)
    /\ resp.handlerCalls = 1
    /\ resp.metaVal = [f \in {"RequestID"} |-> ZeroVal]
    /\ FinalStatus(resp.w) = StatusOK
    /\ \E i \in DOMAIN Handlers : Handlers[i].Path = "/me"
    /\ FinalStatus(serve(built, Request("GET", "/me", <<>>, <<>>, EmptyBody), OkResult).w)
           = StatusBadRequest
    /\ serve(built, Request("GET", "/me", <<>>, <<>>, EmptyBody), OkResult).handlerCalls = 0

\* The int 42 as a field value.
FortyTwo == [n |-> 42, s |-> "", l |-> <<>>]

\* C8 as stated: for the meta-aware endpoint registered at /users/:id whose
\* meta field ID is tagged path:"id", a request to /users/42 invokes the
\* handler with the meta field holding 42, whatever the query string; the
\* request value holds the query's id only, never the path value.
C8_AsStated ==
    \A i \in EndpointsFor(resp.r) :
        (/\ resp.served
         /\ Handlers[i].Path = "/users/:id"
         /\ Handlers[i].Handler.Meta = "userMeta"
         /\ normalizeRequestPath(resp.r.Path) = "/users/42")
        => /\ resp.handlerCalls = 1
           /\ resp.metaVal = [f \in {"ID"} |-> FortyTwo]
           /\ resp.reqVal = [f \in {"ID"} |->
                                IF Has(resp.r.Query, "id")
                                THEN [n |-> 5, s |-> "", l |-> <<>>] ELSE ZeroVal]

\* C9 as stated: a GET request with an empty or absent body to a registered
\* path (default codec) decodes to the zero value of the request type,
\* invokes the handler and does not fail with a decode error.
C9_AsStated ==
    \A i \in EndpointsFor(resp.r) :
        (/\ resp.served
         /\ resp.r.Method = "GET"
         /\ Handlers[i].Handler.codec.kind = "default"
         /\ resp.r.Body.kind \in {"nil", "empty"})
        => /\ resp.decodeErr = NoErr
           /\ resp.handlerCalls = 1
           /\ resp.reqVal = ZeroStruct(Handlers[i].Handler.Req)

\* C9, amended: a GET request without query parameters to a registered path
\* (default codec) decodes, whatever its body, to the zero value of the
\* request type without an error of the request decoding; the handler is
\* invoked with that value unless the endpoint is meta-aware and the
\* decoding of its metadata fails.
C9_GetWithoutQuery ==
    \A i \in EndpointsFor(resp.r) :
        (/\ resp.served
         /\ resp.r.Method = "GET"
         /\ Handlers[i].Handler.codec.kind = "default"
         /\ DOMAIN resp.r.Query = {})
        => /\ RequestDecode(i, resp.r)
                  = [err |-> NoErr, val |-> ZeroStruct(Handlers[i].Handler.Req)]
           /\ resp.decodeErr # NoErr
              => /\ Handlers[i].Handler.kind = "meta"
                 /\ resp.decodeErr =
                        decodeRequestMeta(Handlers[i].Handler.Meta,
                                          ctxPathParams(resp.params), resp.r.Header).err
           /\ resp.decodeErr = NoErr
              => /\ resp.handlerCalls = 1
                 /\ resp.reqVal = ZeroStruct(Handlers[i].Handler.Req)

\* A GET without query parameters and with an empty body was answered by
\* the handler of a plain endpoint, which got the zero value.
C9_Witness ==
    /\ resp.served
    /\ resp.r = Request("GET", "/n", <<>>, <<>>, EmptyBody)
    /\ resp.handlerCalls = 1
    /\ resp.reqVal = ZeroStruct("nameReq")
    /\ resp.decodeErr = NoErr

(***************************************************************************)
(* Error encoding: errors built from fmt.Errorf layers and StatusError     *)
(* layers, returned by the typed handler of a default-codec endpoint and   *)
(* by the decoder of a codec that embeds DefaultCodec.                     *)
(***************************************************************************)
\* One layer around an error: fmt.Errorf("ctx: %w", err), StatusError{0, err},
\* StatusError{404, err}.
ErrLayers ==
    {[t |-> "wrap", status |-> 0, msg |-> "ctx"],
     [t |-> "status", status |-> 0, msg |-> ""],
     [t |-> "status", status |-> StatusNotFound, msg |-> ""]}

\* errors.New("bad") under at most n layers.
RECURSIVE ErrChains(_)
ErrChains(n) ==
    IF n = 0 THEN {BaseErr("bad")}
    ELSE ErrChains(n - 1) \cup {<<l>> \o c : l \in ErrLayers, c \in ErrChains(n - 1)}

NextErr ==
    \/ /\ Handlers = <<>>
       /\ RegisterHandler(1, "GET", "/h", DefaultCodec, <<>>, "struct{}")
    \/ /\ Len(Handlers) = 1
       /\ \E c \in ErrChains(MaxWrap) :
              RegisterHandler(1, "POST", "/e", EmbeddingCodec(c), <<>>, "struct{}")
    \/ Handler
    \/ ServeHTTP(Request("POST", "/e", <<>>, <<>>, EmptyBody), OkResult)
    \/ \E c \in ErrChains(MaxWrap) : ServeHTTP(Get("/h"), [err |-> c, encodable |-> TRUE])

SpecErr == Init /\ [][NextErr]_vars

\* The status of the outermost StatusError layer of an error, 0 without one.
CarriedStatus(err) ==
    IF \E k \in DOMAIN err : err[k].t = "status"
    THEN err[CHOOSE k \in DOMAIN err :
                 /\ err[k].t = "status"
                 /\ \A j \in 1..(k - 1) : err[j].t # "status"].status
    ELSE 0

\* C10: whenever the default codec's EncodeError was called (once, with
\* the error e), the response status is the status carried by e's outermost
\* StatusError layer when that is non-zero and 500 otherwise, and the body
\* is one JSON object whose only field is "error"; a decode failure is
\* answered 400 whatever its cause.
C10_ErrorStatus ==
    (resp.served /\ Len(resp.encodeErrorArgs) = 1)
    => /\ resp.w.status = IF CarriedStatus(resp.encodeErrorArgs[1]) # 0
                          THEN CarriedStatus(resp.encodeErrorArgs[1])
                          ELSE StatusInternalServerError
       /\ Len(resp.w.body) = 1
       /\ resp.w.body[1].kind = "json"
       /\ resp.w.body[1].keys = {"error"}
       /\ resp.decodeErr # NoErr => resp.w.status = StatusBadRequest

\* A decode failure whose cause is a StatusError of status 404 under an
\* fmt.Errorf layer was answered 400.
C10_Witness ==
    /\ resp.served
    /\ resp.decodeErr = WrapErr("ctx", StatusError(StatusNotFound, BaseErr("bad")))
    /\ resp.w.status = StatusBadRequest
    /\ resp.w.body = <<[kind |-> "json", keys |-> {"error"}, text |-> "ctx: bad"]>>

(***************************************************************************)
(* Typed middlewares: one endpoint registered with a list of typed         *)
(* middlewares (mw1 = 1, mw2 = 2, nil = 0) on the root or on its subgroup  *)
(* "/g", under group-level middlewares of priority 0 or 10.                *)
(***************************************************************************)
MaxTyped == 2

\* The lists of at most n typed middlewares.
RECURSIVE TypedLists(_)
TypedLists(n) ==
    IF n = 0 THEN {<<>>}
    ELSE TypedLists(n - 1)
         \cup {Append(l, m) : l \in {x \in TypedLists(n - 1) : Len(x) = n - 1}, m \in 0..2}

TypedRequests == {Get("/ping"), Get("/g/ping")}

NextTyped ==
    \/ ~sealed /\ Len(groups) = 1 /\ Group(1, "/g")
    \/ \E eg \in 1..Len(groups) : \E priority \in Priorities :
          /\ ~sealed
          /\ CountMw(groups, Len(groups)) < MaxTyped
          /\ Use(eg, priority)
    \/ \E eg \in 1..Len(groups) : \E mws \in TypedLists(MaxTyped) :
          /\ Handlers = <<>>
          /\ RegisterHandler(eg, "GET", "/ping", DefaultCodec, mws, "struct{}")
    \/ \E eg \in 1..Len(groups) : \E mws \in TypedLists(MaxTyped) :
          /\ Handlers = <<>>
          /\ RegisterHandlerM(eg, "GET", "/ping", DefaultCodec, mws, "struct{}", "optMeta")
    \/ Handler
    \/ \E r \in TypedRequests : ServeHTTP(r, OkResult)

SpecTyped == Init /\ [][NextTyped]_vars

\* The entries of a list that are not nil, in the order listed.
RECURSIVE Listed(_)
Listed(mws) ==
    IF mws = <<>> THEN <<>>
    ELSE IF Head(mws) = 0 THEN Listed(Tail(mws))
    ELSE <<Head(mws)>> \o Listed(Tail(mws))

\* C11: when the handler of an endpoint runs, the typed middlewares the
\* registration listed are entered in the order listed (the first-listed
\* outermost), then the handler runs, then they are left in the reverse
\* order; and all of this happens after every group-level middleware was
\* entered and before any of them is left, whatever their priorities.
C11_TypedOrder ==
    (resp.served /\ resp.handlerCalls = 1)
        => LET l == Listed(Handlers[1].opts)
               n == Len(l)
               u == (Len(resp.calls) - 2 * n - 1) \div 2
           IN /\ Len(resp.calls) = 2 * u + 2 * n + 1
              /\ u = Cardinality(IdsOn(Chain(Handlers[1].Group)))
              /\ \A i \in 1..u : /\ resp.calls[i].ev = "before"
                                 /\ resp.calls[Len(resp.calls) + 1 - i].ev = "after"
              /\ \A i \in 1..n :
                    /\ resp.calls[u + i] = Event("typed-before", l[i])
                    /\ resp.calls[u + 2 * n + 2 - i] = Event("typed-after", l[i])
              /\ resp.calls[u + n + 1] = Event("handler", 1)

\* The endpoint was registered with mw1, mw2 under one middleware of the
\* root and one of priority 10 on the subgroup, and its handler ran.
C11_Witness ==
    /\ resp.served
    /\ Len(Handlers) = 1
    /\ Handlers[1].opts = <<1, 2>>
    /\ resp.calls = <<Event("before", 2), Event("before", 1),
                      Event("typed-before", 1), Event("typed-before", 2),
                      Event("handler", 1),
                      Event("typed-after", 2), Event("typed-after", 1),
                      Event("after", 1), Event("after", 2)>>

(***************************************************************************)
(* Fallback: a router with or without a fallback (set before Handler()),   *)
(* middlewares on the root and on its subgroup "/g", a static route, a     *)
(* parameterized route and a route of the subgroup.                        *)
(***************************************************************************)
FallbackRoute(g, method, path) == [g |-> g, method |-> method, path |-> path]

\* The routes an application registers, in this order, each on its group.
FallbackRoutes ==
    <<FallbackRoute(1, "GET", "/a"), FallbackRoute(1, "POST", "/u/:x"),
      FallbackRoute(2, "GET", "/b")>>

FallbackRequests ==
    {Get("/a"), Get("/a/"), Request("POST", "/a", <<>>, <<>>, EmptyBody),
     Get("/u/7"), Request("POST", "/u/7", <<>>, <<>>, EmptyBody),
     Get("/g/b"), Get("/b"), Get("/u/7/x"), Get("/")}

NextFallback ==
    \/ ~sealed /\ Len(groups) = 1 /\ Group(1, "/g")
    \/ \E eg \in 1..Len(groups) : \E priority \in Priorities : ~sealed /\ Use(eg, priority)
    \/ \E k \in DOMAIN FallbackRoutes :
          /\ Len(Handlers) = k - 1
          /\ FallbackRoutes[k].g <= Len(groups)
          /\ RegisterHandler(FallbackRoutes[k].g, FallbackRoutes[k].method,
                             FallbackRoutes[k].path, DefaultCodec, <<>>, "struct{}")
    \/ ~sealed /\ SetFallback
    \/ Handler
    \/ \E r \in FallbackRequests : ServeHTTP(r, OkResult)

SpecFallback == Init /\ [][NextFallback]_vars

\* calls is a run of the fallback inside the root's middlewares: each
\* middleware of the root entered once, one of higher priority before one
\* of lower priority, then the fallback, then the middlewares left in the
\* reverse order.
FallbackRun(calls) ==
    LET n == Cardinality(MwOn(1))
    IN /\ Len(calls) = 2 * n + 1
       /\ {calls[i].id : i \in 1..n} = MwOn(1)
       /\ \A i \in 1..n : /\ calls[i].ev = "before"
                          /\ calls[2 * n + 2 - i] = Event("after", calls[i].id)
       /\ \A i, j \in 1..n : i < j => PriorityOf(calls[i].id) >= PriorityOf(calls[j].id)
       /\ calls[n + 1] = Event("fallback", 0)

\* C12: the fallback (set before Handler()) runs exactly for the requests
\* whose normalized path matches no registered route, inside the root's
\* middlewares and no others, and answers them; without a fallback such a
\* request gets 404 and nothing runs; a request whose path matches a route
\* gets 405 when its method is not registered and its endpoint's handler
\* otherwise, and the fallback runs for neither.
C12_Fallback ==
    resp.served
        => /\ (\E i \in DOMAIN resp.calls : resp.calls[i].ev = "fallback")
                  <=> (Matching(resp.r) = {} /\ ~fallback.isNil)
           /\ (Matching(resp.r) = {} /\ ~fallback.isNil)
                  => /\ FallbackRun(resp.calls)
                     /\ FinalStatus(resp.w) = StatusTeapot
           /\ (Matching(resp.r) = {} /\ fallback.isNil)
                  => /\ resp.calls = <<>>
                     /\ FinalStatus(resp.w) = StatusNotFound
           /\ (Matching(resp.r) # {} /\ resp.r.Method \notin MethodsFor(resp.r))
                  => /\ resp.calls = <<>>
                     /\ FinalStatus(resp.w) = StatusMethodNotAllowed
           /\ (Matching(resp.r) # {} /\ resp.r.Method \in MethodsFor(resp.r))
                  => resp.handlerCalls = 1

\* A path nothing is registered for was answered by the fallback inside the
\* two middlewares of the root, while the subgroup has a middleware too and
\* a path with another method registered is still answered 405.
C12_Witness ==
    /\ resp.served
    /\ resp.r = Get("/b")
    /\ Len(groups) = 2
    /\ Len(groups[2].Middlewares) = 1
    /\ Len(Handlers) = 3
    /\ resp.calls = <<Event("before", 3), Event("before", 1), Event("fallback", 0),
                      Event("after", 1), Event("after", 3)>>
    /\ FinalStatus(resp.w) = StatusTeapot
    /\ FinalStatus(serve(built, Get("/u/7"), OkResult).w) = StatusMethodNotAllowed

(***************************************************************************)
(* The root's endpoint list.                                               *)
(***************************************************************************)
GroupPrefixes == {"/g", "/v1/"}

NextGroups ==
    \/ \E eg \in 1..Len(groups) : \E prefix \in GroupPrefixes :
          Len(groups) < MaxGroups /\ Group(eg, prefix)
    \/ \E eg \in 1..Len(groups) :
          RegisterHandler(eg, "GET", "/a", DefaultCodec, <<>>, "struct{}")
    \/ \E eg \in 1..Len(groups) : \E meta \in {"optMeta", "otherMeta"} :
          RegisterHandlerM(eg, "POST", "a", DefaultCodec, <<>>, "struct{}", meta)
    \/ Handler

SpecGroups == Init /\ [][NextGroups]_vars

RECURSIVE EffectivePrefix(_)
\* The prefixes given to Group() from the root down to group g, concatenated.
EffectivePrefix(g) ==
    IF groups[g].parent = 0 THEN "" ELSE EffectivePrefix(groups[g].parent) \o groups[g].given

Registrations == {"RegisterHandler", "RegisterHandlerM"}

RootListsAgree ==
    /\ Len(Handlers) = Len(Metas)
    /\ \A i \in DOMAIN Handlers :
          /\ Metas[i].Method = Handlers[i].Method
          /\ Metas[i].Path = Handlers[i].Path
          /\ Handlers[i].Path = EffectivePrefix(Handlers[i].Group) \o Handlers[i].inPath
    /\ \A g \in DOMAIN groups :
          g # 1 => groups[g].Handlers = <<>> /\ groups[g].Metas = <<>>

\* C13: after any sequence of registrations on the root and on subgroups,
\* the root's Handlers and Metas have the same length, their i-th entries
\* carry the same method and the same full path, which is the owning group's
\* effective prefix followed by the endpoint's path as given (no slash is
\* added or removed), and the lists of every other group are empty; every
\* accepted registration, on whichever group, puts its endpoint at the end
\* of both lists of the root, and nothing else changes them.
C13_RootLists ==
    /\ []RootListsAgree
    /\ [][IF lastOp'.op \in Registrations /\ lastOp'.ok
          THEN /\ Len(Handlers') = Len(Handlers) + 1
               /\ SubSeq(Handlers', 1, Len(Handlers)) = Handlers
               /\ SubSeq(Metas', 1, Len(Metas)) = Metas
               /\ Handlers'[Len(Handlers')].Group = lastOp'.g
          ELSE Handlers' = Handlers /\ Metas' = Metas]_vars

\* Endpoints registered in turn on a subgroup, on the root and on the
\* subgroup again stand in that order in the root's lists; the subgroup's
\* prefix "/v1/" and the path "/a" give "/v1//a".
C13_Witness ==
    /\ Len(groups) = 2
    /\ Len(Handlers) = 3
    /\ Handlers[1].Group = 2 /\ Handlers[1].Path = "/v1//a"
    /\ Handlers[2].Group = 1 /\ Handlers[2].Path = "a"
    /\ Handlers[3].Group = 2 /\ Handlers[3].Path = "/v1/a"
    /\ Handlers[3].Handler.kind = "meta"
    /\ Metas[3].Path = "/v1/a" /\ Metas[3].Meta = "optMeta"
    /\ groups[2].Handlers = <<>>

(***************************************************************************)
(* Path syntax.                                                            *)
(***************************************************************************)
\* Paths registered on the root: one for each defect, and sound ones.
SyntaxPaths ==
    {"/users/{id}", "/u/id}", "/users/:UserID", "/u/:1x", "/u/:",
     "/u/:a:b", "/a:b", "/users/:id/:id",
     "/a//b", "/u/:a_1/:b", "/users/:id"}

\* Paths registered on the subgroup "/g".
SubgroupPaths == {":id", "/:id"}

NextSyntax ==
    \/ Handlers = <<>> /\ Len(groups) = 1 /\ Group(1, "/g")
    \/ \E path \in SyntaxPaths :
          RegisterHandler(1, "GET", path, DefaultCodec, <<>>, "struct{}")
    \/ \E path \in SubgroupPaths :
          /\ Len(groups) > 1
          /\ RegisterHandler(2, "GET", path, DefaultCodec, <<>>, "struct{}")
    \/ Handler

SpecSyntax == Init /\ [][NextSyntax]_vars

\* The segments of a path: what stands between its slashes.
SegmentsOf(path) == Split(Trim(path, "/"), "/")

IsParam(seg) == Len(seg) > 0 /\ Ch(seg, 1) = ":"

ParamName(seg) == SubSeq(seg, 2, Len(seg))

\* Lower-case letters, digits and underscores, the first a letter.
SnakeName(n) ==
    /\ Len(n) > 0
    /\ Ch(n, 1) \in LowerLetters
    /\ \A i \in 2..Len(n) : Ch(n, i) \in LowerLetters \cup Digits \cup {"_"}

Defective(path) ==
    LET segs == SegmentsOf(path) IN
    \/ \E i \in DOMAIN segs : Contains(segs[i], "{") \/ Contains(segs[i], "}")
    \/ \E i \in DOMAIN segs : IsParam(segs[i]) /\ ~SnakeName(ParamName(segs[i]))
    \/ \E i \in DOMAIN segs : ~IsParam(segs[i]) /\ Contains(segs[i], ":")
    \/ \E i, j \in DOMAIN segs :
          /\ i < j /\ IsParam(segs[i]) /\ IsParam(segs[j])
          /\ ParamName(segs[i]) = ParamName(segs[j])

\* C14: when an endpoint registered with RegisterHandler has a full path
\* with a segment containing '{' or '}', a ':' parameter whose name is empty
\* or is not lower-case snake_case, a ':' inside a segment that is not a
\* parameter, or a parameter name occurring twice, Handler() returns an error
\* and no handler; a path with none of these defects compiles without a
\* syntax error, so that with no defective path registered the build fails
\* only for a duplicate or an ambiguous route, and succeeds when the paths
\* registered here are distinct.
C14_PathSyntax ==
    /\ \A i \in DOMAIN Handlers :
          Defective(Handlers[i].Path) <=> parseRoutePattern(Handlers[i].Path).err # ""
    /\ built.called =>
          /\ (\E i \in DOMAIN Handlers : Defective(Handlers[i].Path))
                => (built.isNil /\ built.err # "")
          /\ (\A i \in DOMAIN Handlers : ~Defective(Handlers[i].Path))
                => ~HasPrefix(built.err, "invalid route ")
          /\ (/\ \A i \in DOMAIN Handlers : ~Defective(Handlers[i].Path)
              /\ \A i, j \in DOMAIN Handlers :
                    i # j => Handlers[i].Path # Handlers[j].Path)
                => (~built.isNil /\ built.err = "")

\* A sound path, then a path whose parameter name is not snake_case, then a
\* sound path again: the build fails at the second.
C14_Witness ==
    /\ built.called /\ built.isNil
    /\ built.err = "invalid route GET /users/:UserID: must be snake_case"
    /\ Len(Handlers) = 3
    /\ Handlers[1].Path = "/users/:id"
    /\ Handlers[2].Path = "/users/:UserID"
    /\ Handlers[3].Path = "/a//b"

(***************************************************************************)
(* Middleware scope: the root, a subgroup "/g" and a group "/h" that is a  *)
(* sibling or a child of "/g"; at most one middleware and one endpoint on  *)
(* each group; groups, middlewares and endpoints "/a" registered in any    *)
(* order, and an endpoint "/early" that "/g" can only get before the first *)
(* Use call.                                                               *)
(***************************************************************************)
ScopeRequests == {Get("/a"), Get("/g/a"), Get("/g/early"), Get("/h/a"), Get("/g/h/a")}

NextScope ==
    \/ ~sealed /\ Len(groups) = 1 /\ Group(1, "/g")
    \/ \E eg \in 1..Len(groups) : ~sealed /\ Len(groups) = 2 /\ Group(eg, "/h")
    \/ \E eg \in 1..Len(groups) : ~sealed /\ groups[eg].Middlewares = <<>> /\ Use(eg, 0)
    \/ \E eg \in 1..Len(groups) :
          /\ \A i \in DOMAIN Handlers : Handlers[i].Group # eg
          /\ RegisterHandler(eg, "GET", "/a", DefaultCodec, <<>>, "struct{}")
    \/ /\ Len(groups) > 1
       /\ CountMw(groups, Len(groups)) = 0
       /\ \A i \in DOMAIN Handlers : Handlers[i].Group # 2
       /\ RegisterHandler(2, "GET", "/early", DefaultCodec, <<>>, "struct{}")
    \/ Handler
    \/ \E r \in ScopeRequests : ServeHTTP(r, OkResult)

SpecScope == Init /\ [][NextScope]_vars

\* Group d is group g or a descendant of it.
RECURSIVE Within(_, _)
Within(d, g) == d = g \/ (groups[d].parent # 0 /\ Within(groups[d].parent, g))

\* C15: a middleware added with Use on group G (before Handler()) runs for
\* the request served by an endpoint if and only if the endpoint was
\* registered on G or on a descendant of G, whatever the order of the Use
\* call, the registration and the creation of the subgroup; it runs once,
\* and never for an endpoint of a sibling or of an ancestor of G.
C15_MiddlewareScope ==
    (resp.served /\ resp.handlerCalls = 1)
        => \E ep \in DOMAIN Handlers :
              /\ Ran = {ep}
              /\ \A g \in DOMAIN groups : \A id \in MwOn(g) :
                    /\ id \in Entered <=> Within(Handlers[ep].Group, g)
                    /\ Cardinality({k \in DOMAIN resp.calls :
                                      resp.calls[k] = Event("before", id)})
                          = IF Within(Handlers[ep].Group, g) THEN 1 ELSE 0

\* The endpoint of "/g" was registered before any Use call; the middlewares
\* added afterwards to the root and to "/g" run for it, the one added to its
\* sibling "/h" does not.
C15_Witness ==
    /\ Len(groups) = 3 /\ groups[3].parent = 1
    /\ Len(Handlers) = 3
    /\ Handlers[1].Group = 2 /\ Handlers[1].inPath = "/early"
    /\ groups[1].Middlewares = <<[Middleware |-> 2, Priority |-> 0]>>
    /\ groups[2].Middlewares = <<[Middleware |-> 3, Priority |-> 0]>>
    /\ groups[3].Middlewares = <<[Middleware |-> 1, Priority |-> 0]>>
    /\ resp.served /\ resp.r = Get("/g/early")
    /\ resp.calls = <<Event("before", 2), Event("before", 3), Event("handler", 1),
                      Event("after", 3), Event("after", 2)>>

\* The middlewares of "/g" and of the root both run for the endpoint of the
\* child "/g/h".
ChildScope ==
    /\ Len(groups) = 3 /\ groups[3].parent = 2
    /\ groups[2].Middlewares = <<[Middleware |-> 1, Priority |-> 0]>>
    /\ groups[1].Middlewares = <<[Middleware |-> 2, Priority |-> 0]>>
    /\ resp.served /\ resp.r = Get("/g/h/a")
    /\ Entered = {1, 2}

(***************************************************************************)
(* Use before and after Handler(): the root and a subgroup "/g", one       *)
(* endpoint, Handler() called any number of times.                         *)
(***************************************************************************)
NextLate ==
    \/ Len(groups) = 1 /\ Group(1, "/g")
    \/ \E eg \in 1..Len(groups) : \E priority \in Priorities : Use(eg, priority)
    \/ \E eg \in 1..Len(groups) :
          /\ Handlers = <<>>
          /\ RegisterHandler(eg, "GET", "/a", DefaultCodec, <<>>, "struct{}")
    \/ Handler
    \/ \E r \in {Get("/a"), Get("/g/a")} : ServeHTTP(r, OkResult)

SpecLate == Init /\ [][NextLate]_vars

\* C17 as stated: once Handler() has sealed the root, a Use call on the root
\* or on a subgroup leaves the middleware list of the group as it was.
C17_AsStated ==
    [][(sealed /\ lastOp'.op = "Use")
          => \A g \in DOMAIN groups : groups'[g].Middlewares = groups[g].Middlewares]_vars

(***************************************************************************)
(* Registration-time errors: plain and meta-aware registrations on the     *)
(* root with sound and unsound paths and meta types.                       *)
(***************************************************************************)
MetaPaths == {"/u/:id", "/u/{id}"}

\* userMeta fits "/u/:id"; otherMeta has a path tag naming no parameter,
\* bothMeta a field with a path and a header tag, and int is no struct.
MetaTypes == {"userMeta", "otherMeta", "bothMeta", "int"}

NextMeta ==
    \/ \E path \in MetaPaths : \E meta \in MetaTypes :
          RegisterHandlerM(1, "GET", path, DefaultCodec, <<>>, "struct{}", meta)
    \/ \E path \in MetaPaths :
          RegisterHandler(1, "POST", path, DefaultCodec, <<>>, "struct{}")
    \/ Handler
    \/ ServeHTTP(Get("/u/7"), OkResult)

SpecMeta == Init /\ [][NextMeta]_vars

\* C18 as stated: whenever a registration had an invalid path syntax or an
\* invalid metadata shape, Handler() returns an error: a Handler() call that
\* follows a registration refused for its path or its meta type (the root
\* was not sealed yet) does not succeed.
C18_AsStated ==
    [][(/\ ~sealed
        /\ lastOp.op \in Registrations /\ ~lastOp.ok
        /\ lastOp'.op = "Handler")
          => ~lastOp'.ok]_vars

(***************************************************************************)
(* Concurrency: "/a" and "/b" registered in turn before any goroutine      *)
(* starts, then one RegisterHandler call of "/c" and two Handler() calls,   *)
(* each on a goroutine of its own, and requests on the handler returned    *)
(* last.                                                                   *)
(***************************************************************************)
EarlyPaths == <<"/a", "/b">>

NextRace ==
    \/ \E k \in DOMAIN EarlyPaths :
          /\ running = NoneRunning /\ Len(Handlers) = k - 1
          /\ RegisterHandler(1, "GET", EarlyPaths[k], DefaultCodec, <<>>, "struct{}")
    \/ RegisterCall(1, "GET", "/c")
    \/ RegisterRecheck
    \/ RegisterAppend
    \/ \E b \in DOMAIN running.build : HandlerSeal(b)
    \/ \E b \in DOMAIN running.build : HandlerRange(b)
    \/ \E b \in DOMAIN running.build : HandlerPanic(b)
    \/ \E r \in {Get("/a"), Get("/c")} : ServeHTTP(r, OkResult)

SpecRace == Init /\ [][NextRace]_vars

\* The table t dispatches the method and the path of endpoint e.
InTable(t, e) ==
    /\ ~t.isNil
    /\ Has(t.staticRoutes, e.Path)
    /\ Has(t.staticRoutes[e.Path].byMethod, e.Method)

\* C19 as stated: seal-and-build is atomic with respect to registration: of
\* a RegisterHandler call and a Handler() call that ran concurrently, the
\* endpoint is in the table built or the registration was rejected and
\* root.Handlers is as it was; no endpoint is in root.Handlers that a table
\* built lacks, no Handler() call fails to return, and two Handler() calls
\* build equal tables.
C19_AsStated ==
    /\ \A b \in DOMAIN running.build :
          /\ running.build[b].pc # "panicked"
          /\ running.build[b].pc = "returned"
                => /\ \A i \in DOMAIN Handlers : InTable(running.build[b].table, Handlers[i])
                   /\ running.reg.pc \in {"appended", "rejected"}
                         => \/ (running.reg.pc = "appended"
                                  /\ InTable(running.build[b].table, runningEndpoint))
                            \/ (running.reg.pc = "rejected"
                                  /\ \A i \in DOMAIN Handlers : Handlers[i].inPath # "/c")
    /\ (running.build[1].pc = "returned" /\ running.build[2].pc = "returned")
          => running.build[1].table = running.build[2].table

\* The interleaving the lock would exclude: the registration read
\* root.sealed before Handler() wrote it and appended after Handler() had
\* read root.Handlers, so "/c" is in root.Handlers of the sealed root and
\* the table returned answers it with 404.
LostEndpoint ==
    /\ sealed
    /\ running.reg.pc = "appended"
    /\ Len(Handlers) = 3 /\ Handlers[3].inPath = "/c"
    /\ running.build[1].pc = "returned"
    /\ ~InTable(running.build[1].table, Handlers[3])
    /\ resp.served /\ resp.r = Get("/c")
    /\ FinalStatus(resp.w) = StatusNotFound

(***************************************************************************)
(* Field coercion: one endpoint GET /q whose request type has one field V  *)
(* of a type of ValueTypes, and requests /q?v=... with one or two values.  *)
(***************************************************************************)
ValueTypes ==
    {"string", "bool", "int8", "uint8", "float64", "[]string", "[]int", "time.Time",
     "chan int", "struct{}"}

ValueReq(t) == "struct{V " \o t \o "}"

WireValues ==
    {<<"alice">>, <<"true">>, <<"30">>, <<"300">>, <<"-1">>, <<"1.5">>, <<"a", "b">>,
     <<"30", "-1">>, <<"2024-01-02T03:04:05Z">>}

NextCoerce ==
    \/ \E t \in ValueTypes :
          /\ Handlers = <<>>
          /\ RegisterHandler(1, "GET", "/q", DefaultCodec, <<>>, ValueReq(t))
    \/ Handler
    \/ \E vals \in WireValues :
          ServeHTTP(Request("GET", "/q", [n \in {"v"} |-> vals], <<>>, NoBody), OkResult)

SpecCoerce == Init /\ [][NextCoerce]_vars

\* The field value the coercion rules give for wire values vals and a field
\* of type t, or ok = FALSE where they give a failure.
RECURSIVE Coerced(_, _)
Coerced(t, vals) ==
    CASE t = "string" -> [ok |-> TRUE, val |-> [n |-> 0, s |-> vals[1], l |-> <<>>]]
      [] t = "bool" ->
           [ok |-> ParseBool(vals[1]).ok,
            val |-> [n |-> ParseBool(vals[1]).n, s |-> "", l |-> <<>>]]
      [] t \in {"int", "int8"} ->
           [ok |-> ParseInt(vals[1], GoType(t).bits).ok,
            val |-> [n |-> ParseInt(vals[1], GoType(t).bits).n, s |-> "", l |-> <<>>]]
      [] t = "uint8" ->
           [ok |-> ParseUint(vals[1], 8).ok,
            val |-> [n |-> ParseUint(vals[1], 8).n, s |-> "", l |-> <<>>]]
      [] t = "float64" ->
           [ok |-> ParseFloat(vals[1]).ok,
            val |-> [n |-> 0, s |-> vals[1], l |-> <<>>]]
      [] t \in {"[]string", "[]int"} ->
           [ok |-> \A i \in DOMAIN vals : Coerced(GoType(t).elem, <<vals[i]>>).ok,
            val |-> [n |-> 0, s |-> "",
                     l |-> [i \in DOMAIN vals |-> Coerced(GoType(t).elem, <<vals[i]>>).val]]]
      [] t = "time.Time" ->
           [ok |-> vals[1] \in ValidRFC3339,
            val |-> [n |-> 0, s |-> vals[1], l |-> <<>>]]
      [] OTHER -> [ok |-> FALSE, val |-> ZeroVal]

\* The type of the field V of the request type of endpoint i.
FieldType(i) == GoType(Handlers[i].Handler.Req).fields[1].Type

\* C20 as stated: a query value is coerced into the field by the field's
\* type: a string field receives the first wire value unchanged; a bool,
\* signed integer, unsigned integer or float field the parsed value; a slice
\* field one coerced element for each wire value; a time.Time field the RFC
\* 3339 time, through its text-unmarshal capability; the handler then runs
\* with that value.  A parse failure, any other struct and an unsupported
\* kind fail the request with 400 and the handler does not run.
C20_AsStated ==
    \A i \in EndpointsFor(resp.r) :
        (resp.served /\ Handlers[i].inPath = "/q" /\ Has(resp.r.Query, "v"))
        => IF Coerced(FieldType(i), resp.r.Query["v"]).ok
           THEN /\ resp.handlerCalls = 1
                /\ resp.reqVal = [f \in {"V"} |-> Coerced(FieldType(i), resp.r.Query["v"]).val]
           ELSE /\ resp.handlerCalls = 0
                /\ FinalStatus(resp.w) = StatusBadRequest

\* What the code does hold to: a time.Time field is set from an RFC 3339
\* value, and every query value for a field of any other of the types is
\* answered with 400 without the handler.
OnlyTextUnmarshalers ==
    \A i \in EndpointsFor(resp.r) :
        (resp.served /\ Handlers[i].inPath = "/q" /\ Has(resp.r.Query, "v"))
        => IF FieldType(i) = "time.Time" /\ resp.r.Query["v"][1] \in ValidRFC3339
           THEN /\ resp.handlerCalls = 1
                /\ resp.reqVal = [f \in {"V"} |-> [n |-> 0, s |-> resp.r.Query["v"][1],
                                                   l |-> <<>>]]
           ELSE /\ resp.handlerCalls = 0
                /\ FinalStatus(resp.w) = StatusBadRequest

(***************************************************************************)
(* A failing Encode: endpoints whose codec is the default one, the default *)
(* one with a success status, and one whose Encode returns an error, with  *)
(* handlers that return a value encoding/json cannot encode.               *)
(***************************************************************************)
StatusCreated == 201

\* DefaultCodec[Req, Res]{Status: http.StatusCreated}
CreatedCodec == [DefaultCodec EXCEPT !.Status = StatusCreated]

\* A value json.NewEncoder(w).Encode rejects (a channel), returned without
\* an error.
Unencodable == [err |-> NoErr, encodable |-> FALSE]

EncodePaths == {"/d", "/c", "/t"}

CodecAt(path) ==
    IF path = "/d" THEN DefaultCodec
    ELSE IF path = "/c" THEN CreatedCodec
    ELSE TestCodec(NoErr, TRUE)

NextEncode ==
    \/ /\ Len(Handlers) < MaxEndpoints
       /\ \E path \in EncodePaths :
              RegisterHandler(1, "GET", path, CodecAt(path), <<>>, "struct{}")
    \/ /\ Len(Handlers) < MaxEndpoints
       /\ \E path \in EncodePaths :
              RegisterHandlerM(1, "POST", path, CodecAt(path), <<>>, "struct{}", "optMeta")
    \/ Handler
    \/ \E method \in {"GET", "POST"}, path \in EncodePaths, hres \in {OkResult, Unencodable} :
           ServeHTTP(Request(method, path, <<>>, <<>>, EmptyBody), hres)

SpecEncode == Init /\ [][NextEncode]_vars

\* The Encode call of the served request failed: the handler was invoked,
\* returned no error, and the endpoint's codec rejected the value.
EncodeFailed ==
    /\ resp.served
    /\ resp.handlerCalls = 1
    /\ resp.encodeCalls = 1
    /\ \E i \in DOMAIN Handlers :
           /\ Handlers[i].Path = resp.r.Path
           /\ Handlers[i].Method = resp.r.Method
           /\ codecEncode(Handlers[i].Handler.codec, NewRecorder,
                          resp.hres.encodable).err # NoErr

\* C21: whenever Encode failed after a successful handler invocation, the
\* response is exactly what the failed Encode left of it: the pipeline has
\* written no status code and no further bytes.
C21_AsStated ==
    EncodeFailed =>
        \E i \in DOMAIN Handlers :
            /\ Handlers[i].Path = resp.r.Path
            /\ Handlers[i].Method = resp.r.Method
            /\ resp.w = codecEncode(Handlers[i].Handler.codec, NewRecorder,
                                    resp.hres.encodable).w

\* An endpoint of DefaultCodec{Status: 201} answered 201 and its handler's
\* value could not be encoded: the text of a 500 follows in the body.
EncodeFailedStarted ==
    /\ EncodeFailed
    /\ resp.r.Path = "/c"
    /\ resp.w.status = StatusCreated
    /\ resp.w.body # <<>>

(***************************************************************************)
(* Static routes before patterns: the non-parameterized path /u/7 and the  *)
(* pattern /u/:id that matches it, registered with different methods.      *)
(***************************************************************************)
StaticRoutes ==
    {<<"GET", "/u/7">>, <<"POST", "/u/7">>, <<"GET", "/u/:id">>, <<"POST", "/u/:id">>,
     <<"PUT", "/u/:id">>}

StaticRequests ==
    {Request(m, p, <<>>, <<>>, EmptyBody) : m \in {"GET", "POST", "PUT"},
                                            p \in {"/u/7", "/u/7/", "/u/8"}}

NextStatic ==
    \/ /\ Len(Handlers) < MaxEndpoints
       /\ \E in \in StaticRoutes :
              RegisterHandler(1, in[1], in[2], DefaultCodec, <<>>, "struct{}")
    \/ Handler
    \/ \E r \in StaticRequests : ServeHTTP(r, OkResult)

SpecStatic == Init /\ [][NextStatic]_vars

\* The endpoints registered with a non-parameterized path that equals the
\* normalized request path, and the parameterized ones that match it.
StaticAt(r) ==
    {i \in DOMAIN Handlers :
        /\ parseRoutePattern(Handlers[i].Path).params = <<>>
        /\ parseRoutePattern(Handlers[i].Path).path = normalizeRequestPath(r.Path)}

PatternsAt(r) == Matching(r) \ StaticAt(r)

\* C22: a request whose normalized path equals a registered
\* non-parameterized path is resolved by the static entry: the handler
\* registered for its method on that path runs, without path parameters;
\* when the method is not registered on that path the answer is 405 with
\* the Allow value of the static entry, also when a parameterized pattern
\* that matches the path has the method.
C22_StaticFirst ==
    (resp.served /\ StaticAt(resp.r) # {})
        => /\ resp.route = "static"
           /\ resp.params = NoBag
           /\ IF \E i \in StaticAt(resp.r) : Handlers[i].Method = resp.r.Method
              THEN /\ resp.handlerCalls = 1
                   /\ \E i \in StaticAt(resp.r) :
                          /\ Handlers[i].Method = resp.r.Method
                          /\ resp.calls = <<Event("handler", i)>>
              ELSE /\ resp.w.status = StatusMethodNotAllowed
                   /\ resp.handlerCalls = 0
                   /\ resp.calls = <<>>
                   /\ Has(resp.w.header, "Allow")
                   /\ ListsAscending(resp.w.header["Allow"],
                                     {Handlers[i].Method : i \in StaticAt(resp.r)})

\* GET /u/7 was answered 405 with Allow: POST by a router on which POST /u/7
\* and GET /u/:id are registered.
C22_Witness ==
    /\ resp.served
    /\ resp.r.Method = "GET"
    /\ resp.r.Path = "/u/7"
    /\ \E i \in PatternsAt(resp.r) : Handlers[i].Method = "GET"
    /\ {Handlers[i].Method : i \in StaticAt(resp.r)} = {"POST"}
    /\ resp.w.status = StatusMethodNotAllowed
    /\ resp.w.header["Allow"] = "POST"

\* POST /u/7/ was answered by the handler of the static route although the
\* pattern registered before it has the method too.
StaticOverEarlierPattern ==
    /\ resp.served
    /\ resp.r.Method = "POST"
    /\ resp.r.Path = "/u/7/"
    /\ Len(Handlers) >= 2
    /\ Handlers[1].Path = "/u/:id" /\ Handlers[1].Method = "POST"
    /\ Handlers[2].Path = "/u/7" /\ Handlers[2].Method = "POST"
    /\ resp.calls = <<Event("handler", 2)>>

(***************************************************************************)
(* Pattern order: patterns of different shapes that match the same request *)
(* paths, registered in any order with different methods.                  *)
(***************************************************************************)
OrderRoutes ==
    {<<m, p>> : m \in {"GET", "POST"}, p \in {"/u/:id", "/:kind/7", "/:a/:b"}}

OrderRequests ==
    {Request(m, p, <<>>, <<>>, EmptyBody) : m \in {"GET", "POST", "PUT"},
                                            p \in {"/u/7", "/u/8", "/x/7"}}

NextOrder ==
    \/ /\ Len(Handlers) < MaxEndpoints
       /\ \E in \in OrderRoutes :
              RegisterHandler(1, in[1], in[2], DefaultCodec, <<>>, "struct{}")
    \/ Handler
    \/ \E r \in OrderRequests : ServeHTTP(r, OkResult)

SpecOrder == Init /\ [][NextOrder]_vars

\* The registration that introduced the first pattern matching the request:
\* the earliest registered endpoint with a matching parameterized path.
FirstPattern(r) == CHOOSE i \in PatternsAt(r) : \A j \in PatternsAt(r) : i <= j

\* The endpoints registered on the pattern of endpoint i.
SamePattern(i) ==
    {j \in DOMAIN Handlers :
        parseRoutePattern(Handlers[j].Path).shape = parseRoutePattern(Handlers[i].Path).shape}

\* C23: when no static route has the request path, the matching pattern
\* whose shape was registered first decides: the handler registered on it
\* for the request method runs, and when it has none the answer is 405 with
\* that pattern's Allow value; a pattern registered later that matches too
\* is not consulted, whatever its methods.
C23_PatternOrder ==
    (resp.served /\ StaticAt(resp.r) = {} /\ PatternsAt(resp.r) # {})
        => /\ resp.route = "pattern"
           /\ IF \E i \in SamePattern(FirstPattern(resp.r)) :
                     Handlers[i].Method = resp.r.Method
              THEN /\ resp.handlerCalls = 1
                   /\ \E i \in SamePattern(FirstPattern(resp.r)) :
                          /\ Handlers[i].Method = resp.r.Method
                          /\ resp.calls = <<Event("handler", i)>>
              ELSE /\ resp.w.status = StatusMethodNotAllowed
                   /\ resp.handlerCalls = 0
                   /\ resp.calls = <<>>
                   /\ Has(resp.w.header, "Allow")
                   /\ ListsAscending(resp.w.header["Allow"],
                                     {Handlers[i].Method :
                                          i \in SamePattern(FirstPattern(resp.r))})

\* GET /u/7 was answered 405 with Allow: POST: POST /u/:id was registered
\* before GET /:kind/7, which matches the path too.
C23_Witness ==
    /\ resp.served
    /\ resp.r.Method = "GET"
    /\ resp.r.Path = "/u/7"
    /\ Len(Handlers) = 2
    /\ Handlers[1].Path = "/u/:id" /\ Handlers[1].Method = "POST"
    /\ Handlers[2].Path = "/:kind/7" /\ Handlers[2].Method = "GET"
    /\ resp.w.status = StatusMethodNotAllowed
    /\ resp.w.header["Allow"] = "POST"

\* The same two registrations in the other order: the handler of GET
\* /:kind/7 answers GET /u/7.
EarlierPatternServes ==
    /\ resp.served
    /\ resp.r.Method = "GET"
    /\ resp.r.Path = "/u/7"
    /\ Len(Handlers) = 2
    /\ Handlers[1].Path = "/:kind/7" /\ Handlers[1].Method = "GET"
    /\ Handlers[2].Path = "/u/:id" /\ Handlers[2].Method = "POST"
    /\ resp.calls = <<Event("handler", 1)>>

(***************************************************************************)
(* The handler already returned: h := r.Handler() is kept by its caller    *)
(* and serves requests while the router is used further: Use, SetFallback, *)
(* registrations and another Handler() call.                               *)
(***************************************************************************)
FrozenRequests ==
    {Request("GET", "/a", <<>>, <<>>, EmptyBody), Request("POST", "/a", <<>>, <<>>, EmptyBody),
     Request("GET", "/u/7", <<>>, <<>>, EmptyBody), Request("GET", "/x", <<>>, <<>>, EmptyBody)}

\* At most two endpoints and two middlewares, one of them before and one
\* after the first Handler() call.
NextFrozen ==
    \/ /\ Len(Handlers) < 2
       /\ RegisterHandler(1, "GET", "/a", DefaultCodec, <<>>, "struct{}")
    \/ /\ Len(Handlers) < 2
       /\ RegisterHandlerM(1, "GET", "/u/:id", DefaultCodec, <<>>, "struct{}", "nameMeta")
    \/ /\ Len(groups[1].Middlewares) < (IF running.build[1].pc = "idle" THEN 1 ELSE 2)
       /\ Use(1, 0)
    \/ SetFallback
    \/ HandlerSeal(1)
    \/ HandlerRange(1)
    \/ running.build[1].pc = "returned" /\ Handler
    \/ \E r \in FrozenRequests : ServeReturned(1, r, OkResult)

SpecFrozen == Init /\ [][NextFrozen]_vars

\* What the handler returned dispatches on is the table its Handler() call
\* built, and its last answer is the answer of that table.
AsBuilt ==
    (running.build[1].pc = "returned" /\ ~running.build[1].table.isNil)
        => /\ returnedTable(1) = running.build[1].table
           /\ lastOp.op = "ServeHTTP"
                 => resp = serve(running.build[1].table, resp.r, resp.hres)

\* C24: once Handler() has returned a handler, no later step (Use,
\* SetFallback, a registration attempt, another Handler() call, a request)
\* changes what that handler dispatches on: its handler chains for every
\* method and path, its fallback and its Allow values stay as they were
\* when it was built, and so does its answer to every request.
C24_Frozen ==
    /\ []AsBuilt
    /\ [][(running.build[1].pc = "returned" /\ ~returnedTable(1).isNil)
             => /\ returnedTable(1)' = returnedTable(1)
                /\ \A r \in FrozenRequests :
                       serve(returnedTable(1)', r, OkResult) = serve(returnedTable(1), r, OkResult)
         ]_vars

\* The handler first returned answered GET /x with 404 and without entering
\* a middleware, after a middleware and a fallback were added and another
\* Handler() call returned a handler that has both.
C24_Witness ==
    /\ running.build[1].pc = "returned"
    /\ returnedTable(1).fallback.isNil
    /\ built.called
    /\ ~built.isNil
    /\ ~built.fallback.isNil
    /\ Len(built.fallback.wraps) > 0
    /\ built # returnedTable(1)
    /\ lastOp = Op("ServeHTTP", 1, TRUE)
    /\ resp.served
    /\ resp.r = Request("GET", "/x", <<>>, <<>>, EmptyBody)
    /\ resp.route = "none"
    /\ resp.w.status = StatusNotFound
    /\ resp.calls = <<>>

(***************************************************************************)
(* Meta validation against the full path: meta-aware registrations on the  *)
(* root and on the subgroup "/g/:id" with meta types that fit the route    *)
(* and with each kind of unsound meta type.                                *)
(***************************************************************************)
ShapePaths == {"/x", "/u/:id", "/u/:userID"}

\* userMeta and optMeta are sound (userMeta on a route with the parameter
\* id); twoPathMeta uses the path tag id twice, twoHeaderMeta the header tag
\* x-trace twice, camelMeta has the path tag userID, bothMeta a field with
\* both tags, otherMeta the path tag key, and int is no struct.
ShapeTypes ==
    {"userMeta", "optMeta", "otherMeta", "bothMeta", "int", "twoPathMeta",
     "twoHeaderMeta", "camelMeta"}

NextShape ==
    \/ Len(groups) = 1 /\ Group(1, "/g/:id")
    \/ \E eg \in 1..Len(groups) : \E path \in ShapePaths, meta \in ShapeTypes :
          RegisterHandlerM(eg, "GET", path, DefaultCodec, <<>>, "struct{}", meta)
    \/ Handler

SpecShape == Init /\ [][NextShape]_vars

\* The name of a tag: the text before its first comma.
TagName(tag) == Split(tag, ",")[1]

\* The parameter names of a path.
ParamsOf(path) ==
    {ParamName(SegmentsOf(path)[k]) : k \in {j \in DOMAIN SegmentsOf(path) :
                                                IsParam(SegmentsOf(path)[j])}}

\* The meta type is a struct none of whose fields has both tags, whose path
\* tags are snake_case names of parameters of the path, each on one field,
\* and whose header tags are each on one field.
SoundMeta(meta, path) ==
    /\ GoType(meta).kind = "struct"
    /\ \A i \in DOMAIN GoType(meta).fields :
          /\ GoType(meta).fields[i].path # NoTag => GoType(meta).fields[i].header = NoTag
          /\ GoType(meta).fields[i].path \notin {NoTag, "-"}
                => /\ SnakeName(TagName(GoType(meta).fields[i].path))
                   /\ TagName(GoType(meta).fields[i].path) \in ParamsOf(path)
    /\ \A i, j \in DOMAIN GoType(meta).fields :
          i # j =>
             /\ GoType(meta).fields[i].path \notin {NoTag, "-"}
                   => GoType(meta).fields[j].path = NoTag
                      \/ TagName(GoType(meta).fields[j].path)
                            # TagName(GoType(meta).fields[i].path)
             /\ GoType(meta).fields[i].header \notin {NoTag, "-"}
                   => GoType(meta).fields[j].header = NoTag
                      \/ TagName(GoType(meta).fields[j].header)
                            # TagName(GoType(meta).fields[i].header)

\* Every endpoint of root.Handlers has its record in root.Metas, and the
\* meta type of every meta-aware one is sound for the endpoint's full path.
AcceptedSound ==
    /\ Len(Metas) = Len(Handlers)
    /\ \A i \in DOMAIN Handlers :
          /\ Metas[i].Path = Handlers[i].Path
          /\ Metas[i].Meta = Handlers[i].Handler.Meta
          /\ Handlers[i].Handler.kind = "meta"
          /\ SoundMeta(Handlers[i].Handler.Meta, Handlers[i].Path)

\* C25: a RegisterHandlerM call whose meta type fails validation against
\* the full path (prefix and path) adds neither an endpoint nor a metadata
\* record, so every accepted registration has a sound meta type: each
\* path-tagged field names a parameter of the route.  A call appends one
\* endpoint and one record or leaves root.Handlers and root.Metas as they
\* were, and a refused call leaves them as they were.
C25_InvalidMetaDropped ==
    /\ []AcceptedSound
    /\ [][/\ \/ Handlers' = Handlers /\ Metas' = Metas
             \/ /\ Len(Handlers') = Len(Handlers) + 1
                /\ SubSeq(Handlers', 1, Len(Handlers)) = Handlers
                /\ SubSeq(Metas', 1, Len(Metas)) = Metas
          /\ (lastOp'.op = "RegisterHandlerM" /\ ~lastOp'.ok)
                => Handlers' = Handlers /\ Metas' = Metas
      ]_vars

\* A meta-aware registration was refused before the root was sealed, after
\* userMeta was accepted on the subgroup for "/x" (full path /g/:id/x).
C25_Witness ==
    /\ ~sealed
    /\ lastOp = Op("RegisterHandlerM", 1, FALSE)
    /\ Len(Handlers) = 1
    /\ Handlers[1].Path = "/g/:id/x"
    /\ Handlers[1].Handler.Meta = "userMeta"
    /\ Len(Metas) = 1

(***************************************************************************)
(* Sealing is one-way: registrations that make the build fail (an invalid  *)
(* path, a duplicate route) and registrations that do not, on the root and *)
(* on a subgroup, before and after Handler() calls.                        *)
(***************************************************************************)
NextOneWay ==
    \/ Len(groups) = 1 /\ Group(1, "/g")
    \/ \E eg \in 1..Len(groups) : \E path \in {"/a", "/u/{id}"} :
          RegisterHandler(eg, "GET", path, DefaultCodec, <<>>, "struct{}")
    \/ RegisterHandlerM(1, "GET", "/u/:id", DefaultCodec, <<>>, "struct{}", "nameMeta")
    \/ SetFallback
    \/ Handler
    \/ \E r \in {Get("/a"), Get("/u/7")} : ServeHTTP(r, OkResult)

SpecOneWay == Init /\ [][NextOneWay]_vars

\* C26: every Handler() call leaves the root sealed, whether it returned a
\* handler or a build error; once sealed the root stays sealed in every
\* later state, and every later registration is refused and leaves
\* root.Handlers and root.Metas as they were.
C26_SealOneWay ==
    /\ [](built.called => sealed)
    /\ [][/\ lastOp'.op = "Handler" => sealed'
          /\ sealed => /\ sealed'
                       /\ lastOp'.op \in Registrations
                             => /\ ~lastOp'.ok
                                /\ Handlers' = Handlers
                                /\ Metas' = Metas
      ]_vars

\* Handler() returned a build error and no handler; the root is sealed and
\* the registration that followed was refused.
C26_Witness ==
    /\ built.called
    /\ built.isNil
    /\ built.err # ""
    /\ sealed
    /\ lastOp = Op("RegisterHandler", 1, FALSE)
    /\ \E i \in DOMAIN Handlers : Handlers[i].Path = "/u/{id}"

(***************************************************************************)
(* The Path Parameter Bag: plain and meta-aware endpoints on parameterized *)
(* routes, and request paths that give each parameter a value, among them  *)
(* the path that spells the pattern itself.                                *)
(***************************************************************************)
BagRoutes == {"/u/:id", "/o/:org/u/:id"}

BagRequests ==
    {Request(m, p, <<>>, <<>>, EmptyBody) :
        m \in {"GET", "POST"}, p \in {"/u/7", "/u/:id", "/u/:x", "/o/acme/u/7", "/o/:org/u/:id"}}

NextBag ==
    \/ /\ Len(Handlers) < MaxEndpoints
       /\ \E path \in BagRoutes :
              RegisterHandler(1, "GET", path, DefaultCodec, <<>>, "struct{}")
    \/ /\ Len(Handlers) < MaxEndpoints
       /\ \E path \in BagRoutes :
              RegisterHandlerM(1, "POST", path, DefaultCodec, <<>>, "struct{}", "nameMeta")
    \/ Handler
    \/ \E r \in BagRequests : ServeHTTP(r, OkResult)

SpecBag == Init /\ [][NextBag]_vars

\* The request was resolved to a pattern that has its method: the endpoint's
\* composed handler was invoked.
PatternInvoked ==
    /\ resp.served
    /\ resp.route = "pattern"
    /\ resp.w.status # StatusMethodNotAllowed

\* The bag the segments of the request path give for the route: each
\* parameter name mapped to the segment at the parameter's position.
BagOf(route, requestPath) ==
    [n \in ParamsOf(route) |->
        SegmentsOf(requestPath)[CHOOSE k \in DOMAIN SegmentsOf(route) :
                                    /\ IsParam(SegmentsOf(route)[k])
                                    /\ ParamName(SegmentsOf(route)[k]) = n]]

\* The request failed with a missing path binding.
MissingPathParam ==
    \E k \in DOMAIN resp.decodeErr : HasPrefix(resp.decodeErr[k].msg, "missing path param ")

\* C27 as stated: whenever a parameterized route matches a request and its
\* handler is invoked, the bag attached to the request context has exactly
\* the pattern's parameter names as keys, each mapped to the request path
\* segment at the parameter's position, and the request does not fail with
\* a missing path binding.
C27_AsStated ==
    PatternInvoked
        => /\ resp.params.attached
           /\ resp.params.values = BagOf(Handlers[FirstPattern(resp.r)].Path,
                                         normalizeRequestPath(resp.r.Path))
           /\ ~MissingPathParam

\* The same for the requests whose path is not the text of the pattern.
BagOnSegmentMatch ==
    (/\ PatternInvoked
     /\ normalizeRequestPath(resp.r.Path)
           # parseRoutePattern(Handlers[FirstPattern(resp.r)].Path).path)
        => /\ resp.params.attached
           /\ resp.params.values = BagOf(Handlers[FirstPattern(resp.r)].Path,
                                         normalizeRequestPath(resp.r.Path))
           /\ ~MissingPathParam

\* POST /u/:id on the meta-aware route /u/:id: no bag was attached and the
\* request failed with "missing path param id".
LiteralPatternPath ==
    /\ PatternInvoked
    /\ resp.r.Method = "POST"
    /\ resp.r.Path = "/u/:id"
    /\ ~resp.params.attached
    /\ MissingPathParam
    /\ resp.w.status = StatusBadRequest

(***************************************************************************)
(* The router's own responses: endpoints on the root and on the subgroup   *)
(* "/g", a middleware on each, with and without a fallback, and requests   *)
(* that match an endpoint, miss the method or miss every route.            *)
(***************************************************************************)
OwnRequests ==
    {Request(m, p, <<>>, <<>>, EmptyBody) : m \in {"GET", "POST"},
                                            p \in {"/a", "/g/u/7", "/x"}}

NextOwn ==
    \/ ~sealed /\ Len(groups) = 1 /\ Group(1, "/g")
    \/ \E eg \in 1..Len(groups) : ~sealed /\ groups[eg].Middlewares = <<>> /\ Use(eg, 0)
    \/ /\ Len(Handlers) < MaxEndpoints
       /\ RegisterHandler(1, "GET", "/a", DefaultCodec, <<>>, "struct{}")
    \/ /\ Len(Handlers) < MaxEndpoints /\ Len(groups) > 1
       /\ RegisterHandler(2, "GET", "/u/:id", DefaultCodec, <<>>, "struct{}")
    \/ ~sealed /\ SetFallback
    \/ Handler
    \/ \E r \in OwnRequests : ServeHTTP(r, OkResult)

SpecOwn == Init /\ [][NextOwn]_vars

\* C28: the 404 answered when no route matches and no fallback is set, and
\* the 405 answered on a method mismatch, are written without entering any
\* group-level middleware, the root's included; a group-level middleware is
\* entered only around the handler of a matched endpoint or around the
\* fallback.
C28_OwnResponses ==
    resp.served
        => /\ (Matching(resp.r) = {} /\ fallback.isNil)
                 => /\ resp.w.status = StatusNotFound
                    /\ resp.calls = <<>>
           /\ (Matching(resp.r) # {} /\ resp.r.Method \notin MethodsFor(resp.r))
                 => /\ resp.w.status = StatusMethodNotAllowed
                    /\ resp.calls = <<>>
           /\ Entered # {}
                 => \/ /\ Matching(resp.r) # {}
                       /\ resp.r.Method \in MethodsFor(resp.r)
                       /\ \E ep \in Matching(resp.r) : Ran = {ep}
                    \/ /\ Matching(resp.r) = {}
                       /\ ~fallback.isNil
                       /\ \E k \in DOMAIN resp.calls : resp.calls[k] = Event("fallback", 0)

\* With a middleware on the root and one on "/g", POST /g/u/7 was answered
\* 405 by the route GET /g/u/:id and no middleware was entered.
C28_Witness ==
    /\ Len(groups) = 2
    /\ groups[1].Middlewares # <<>>
    /\ groups[2].Middlewares # <<>>
    /\ resp.served
    /\ resp.r = Request("POST", "/g/u/7", <<>>, <<>>, EmptyBody)
    /\ resp.w.status = StatusMethodNotAllowed
    /\ resp.calls = <<>>

\* With a middleware on the root and no fallback, GET /x was answered 404
\* and no middleware was entered.
NotFoundUnwrapped ==
    /\ groups[1].Middlewares # <<>>
    /\ fallback.isNil
    /\ resp.served
    /\ resp.r = Request("GET", "/x", <<>>, <<>>, EmptyBody)
    /\ resp.w.status = StatusNotFound
    /\ resp.calls = <<>>

\* The root's middleware was entered around the fallback.
FallbackWrapped ==
    /\ resp.served
    /\ resp.route = "fallback"
    /\ Entered # {}

(***************************************************************************)
(* Decode failures under middlewares: one endpoint with typed middlewares, *)
(* plain or meta-aware, on the root or on the subgroup "/g", under         *)
(* group-level middlewares, with codecs and meta types whose decoding      *)
(* fails or succeeds.                                                      *)
(***************************************************************************)
DecodeCodecs == {DefaultCodec, TestCodec(BadRequest, FALSE)}

DecodeRequests ==
    {Request("GET", p, <<>>, <<>>, EmptyBody) : p \in {"/ping", "/g/ping"}}

NextDecode ==
    \/ ~sealed /\ Len(groups) = 1 /\ Group(1, "/g")
    \/ \E eg \in 1..Len(groups) :
          /\ ~sealed
          /\ CountMw(groups, Len(groups)) < MaxTyped
          /\ Use(eg, 0)
    \/ \E eg \in 1..Len(groups) : \E mws \in {<<1>>, <<1, 2>>}, codec \in DecodeCodecs :
          /\ Handlers = <<>>
          /\ RegisterHandler(eg, "GET", "/ping", codec, mws, "struct{}")
    \/ \E eg \in 1..Len(groups) : \E mws \in {<<1>>, <<1, 2>>}, meta \in {"optMeta", "authMeta"} :
          /\ Handlers = <<>>
          /\ RegisterHandlerM(eg, "GET", "/ping", DefaultCodec, mws, "struct{}", meta)
    \/ Handler
    \/ \E r \in DecodeRequests : ServeHTTP(r, OkResult)

SpecDecode == Init /\ [][NextDecode]_vars

\* The typed middlewares entered while the request was served.
TypedEntered ==
    {resp.calls[k].id : k \in {k \in DOMAIN resp.calls : resp.calls[k].ev = "typed-before"}}

\* C29: when the decoding of the request value or of the metadata fails, no
\* typed middleware is entered and no handler runs, while every group-level
\* middleware of the endpoint is entered before, and left after, the 400
\* response is written; a typed middleware is entered only when the
\* decoding succeeded, and then all those listed are.
C29_TypedAfterDecode ==
    \A i \in EndpointsFor(resp.r) :
        resp.served
        => IF DecodeFailure(i, resp.r, ctxPathParams(resp.params)) # NoErr
           THEN /\ TypedEntered = {}
                /\ Ran = {}
                /\ resp.handlerCalls = 0
                /\ FinalStatus(resp.w) = StatusBadRequest
                /\ Entered = IdsOn(Chain(Handlers[i].Group))
                /\ Len(resp.calls) = 2 * Cardinality(Entered)
                /\ \A k \in 1..Cardinality(Entered) :
                      /\ resp.calls[k].ev = "before"
                      /\ resp.calls[Len(resp.calls) + 1 - k] = Event("after", resp.calls[k].id)
           ELSE /\ TypedEntered = {Handlers[i].opts[k] : k \in DOMAIN Handlers[i].opts}
                /\ Ran = {i}
                /\ Entered = IdsOn(Chain(Handlers[i].Group))

\* The meta-aware endpoint of "/g" listing mw1 and mw2 got a request without
\* the Authorization header under a middleware of the root and one of "/g":
\* both were entered and left around the 400, and no typed middleware ran.
C29_Witness ==
    /\ resp.served
    /\ resp.r.Path = "/g/ping"
    /\ Len(Handlers) = 1
    /\ Handlers[1].Handler.Meta = "authMeta"
    /\ Handlers[1].opts = <<1, 2>>
    /\ Len(groups) = 2
    /\ groups[1].Middlewares # <<>>
    /\ groups[2].Middlewares # <<>>
    /\ Len(resp.calls) = 4
    /\ Entered = {1, 2}
    /\ TypedEntered = {}
    /\ FinalStatus(resp.w) = StatusBadRequest

\* The request value's decoding failed on a plain endpoint under a
\* middleware.
PlainDecodeFailure ==
    /\ resp.served
    /\ Len(Handlers) = 1
    /\ Handlers[1].Handler.kind = "plain"
    /\ Entered # {}
    /\ TypedEntered = {}
    /\ resp.decodeErr = BadRequest

\* The decoding succeeded and the typed middlewares were entered.
TypedRan ==
    /\ resp.served
    /\ TypedEntered = {1, 2}
    /\ Entered # {}

(***************************************************************************)
(* Concurrent requests: two goroutines serve one request each on the same  *)
(* handler, on a route with one parameter, one with two and a static one;  *)
(* each handler takes a copy of its path parameters, writes to the copy    *)
(* and reads its parameters again.                                         *)
(***************************************************************************)
ConcurrentRequests ==
    {Get("/u/7"), Get("/u/8"), Get("/o/acme/u/7"), Get("/a"), Get("/x")}

NextConcurrent ==
    \/ /\ Len(Handlers) < MaxEndpoints
       /\ \E path \in {"/a", "/u/:id", "/o/:org/u/:id"} :
              RegisterHandler(1, "GET", path, DefaultCodec, <<>>, "struct{}")
    \/ Handler
    \/ \E q \in DOMAIN running.serving : \E r \in ConcurrentRequests : ServeMatch(q, r)
    \/ \E q \in DOMAIN running.serving : HandlerPathParams(q)
    \/ \E q \in DOMAIN running.serving : HandlerMutate(q)
    \/ \E q \in DOMAIN running.serving : HandlerPathParam(q)
    \/ \E q \in DOMAIN running.serving : ServeAnswer(q, OkResult)

SpecConcurrent == Init /\ [][NextConcurrent]_vars

\* The values the path of request q gives for the pattern it was resolved to.
OwnValues(q) ==
    BagOf(built.patternRoutes[running.serving[q].k].path,
          normalizeRequestPath(running.serving[q].r.Path))

\* The bag of every request in progress holds the values of its own path,
\* whatever the other request and the handlers have done; no map is the bag
\* of two requests or the bag of one and the copy of another; and what
\* PathParam returned to a handler is what its own path gave.
OwnBag ==
    /\ \A q \in DOMAIN running.serving :
          /\ running.serving[q].bag # 0
                => running.heap[running.serving[q].bag] = OwnValues(q)
          /\ running.serving[q].pc \in {"read", "done"}
                => running.serving[q].seen
                      = IF running.serving[q].bag = 0 THEN EmptyMap ELSE OwnValues(q)
    /\ \A p, q \in DOMAIN running.serving :
          /\ (p # q /\ running.serving[p].bag # 0)
                => running.serving[p].bag # running.serving[q].bag
          /\ running.serving[p].bag # 0
                => running.serving[p].bag # running.serving[q].copy

\* C30: under every interleaving of two requests on one handler, serving
\* writes neither to the dispatch table nor to the router's lists, each
\* request has a bag of its own holding the values of its own path, a
\* handler reads only those, and a write to the map PathParams returned
\* changes no bag.
C30_NoInterference ==
    /\ []OwnBag
    /\ [][running'.serving # running.serving
             => /\ built' = built
                /\ groups' = groups
                /\ Handlers' = Handlers
                /\ Metas' = Metas
                /\ fallback' = fallback
                /\ sealed' = sealed
      ]_vars

\* The handler of GET /u/7 has written to its copy while GET /u/8 was being
\* served on the other goroutine, whose handler read id = 8.
C30_Witness ==
    /\ running.serving[1].pc = "mutated"
    /\ running.serving[1].r = Get("/u/7")
    /\ running.serving[1].copy # 0
    /\ running.heap[running.serving[1].copy] = [n \in {"id"} |-> "mutated"]
    /\ running.heap[running.serving[1].bag] = [n \in {"id"} |-> "7"]
    /\ running.serving[2].pc = "read"
    /\ running.serving[2].r = Get("/u/8")
    /\ running.serving[2].bag > running.serving[1].bag
    /\ running.serving[2].bag < running.serving[1].copy
    /\ running.serving[2].seen = [n \in {"id"} |-> "8"]

Next == NextRoute \/ NextSeal \/ NextMw \/ NextPipe \/ NextErr \/ NextTyped \/ NextFallback \/ NextGroups \/ NextSyntax \/ NextScope \/ NextLate \/ NextMeta \/ NextRace \/ NextCoerce \/ NextEncode \/ NextStatic \/ NextOrder \/ NextFrozen \/ NextShape \/ NextOneWay \/ NextBag \/ NextOwn \/ NextDecode \/ NextConcurrent

Spec == Init /\ [][Next]_vars
====
